---- MODULE Spec2Model ----
(***************************************************************************)
(* A model of the core of volty: the rate-limit buckets of volty-http, the *)
(* HTTP client facade that consults them, and the gateway session of       *)
(* volty-ws.  Time is counted in milliseconds.                             *)
(***************************************************************************)
EXTENDS Integers, Sequences, FiniteSets, TLC

VARIABLES
    now,        \* Instant::now(), in ms
    buckets,    \* Buckets.buckets: BucketKey -> Bucket, NoBucket when absent
    last,       \* the most recent call and what it returned
    hist,       \* per key: what the takes of the bucket's first window returned
    seen,       \* per key: the limit header of the latest observe that was applied
    script,     \* the reconcile scenario: step reached, results, window
    tasks,      \* per task of the HTTP caller: the request it holds
    wire,       \* the requests put on the wire
    ws,         \* InnerWebSocket and the position of the task inside next()
    wsHist,     \* what the server delivered, what next() handled and returned
    cache,      \* InnerCache: the tables of volty-ws/src/cache.rs
    cacheLast,  \* the event the latest cache.update was given, a bit that
                \* flips with every update, and the number of Readys (up to 2)
    session,    \* InnerWebSocket lock by lock: who holds tx and rx and which
                \* connection each belongs to, the latest update of last_message,
                \* the latest frame written, and the tasks inside next() and
                \* send()
    fetches,    \* per handler task: the fetch_members or fetch_dm call it is
                \* inside
    flights,    \* per handler task of the driver loop: where it is, and the
                \* fetch-through call or the on_event call it is inside; per
                \* key: the HTTP fetches issued for the load in flight
    driver,     \* the driver loop of examples/basic.rs: its position, the
                \* events next() returned, how many were applied and spawned
    replica     \* a second fresh cache that is fed the events of the first

bucketVars == <<buckets, hist, seen>>
httpVars == <<tasks, wire>>
wsVars == <<ws, wsHist, session>>
cacheVars == <<cache, cacheLast, fetches, flights, driver, replica>>
vars == <<now, buckets, last, hist, seen, script, tasks, wire, ws, wsHist, session,
          cache, cacheLast, fetches, flights, driver, replica>>

----------------------------------------------------------------------------
(* Bounds of the model *)

MaxTime == 12000
MaxCount == 256
MaxWsTime == 60000
MaxFrames == 2
MaxConn == 2
MaxEvents == 2

----------------------------------------------------------------------------
(* volty-http/src/bucket.rs *)

U8 == 256
Window == 10000

Min(a, b) == IF a < b THEN a ELSE b
Max(a, b) == IF a > b THEN a ELSE b

Key(fam, target) == [fam |-> fam, target |-> target]

\* one key of every family; the families with a target use the ids below
Families == {"Auth", "AuthDelete", "Bots", "Channels", "DefaultAvatar", "Messaging",
             "Safety", "SafetyReport", "Servers", "Swagger", "Users", "UserEdit", "Any"}
Keyed == {"Channels", "Messaging", "Servers", "UserEdit"}
Targets == {"x", "autumn"}
Keys == {Key(f, "") : f \in Families \ Keyed}
          \cup {Key(f, t) : f \in Keyed, t \in Targets}

Seg(path, i) == IF i <= Len(path) THEN path[i] ELSE ""

\* BucketKey::new: the path is given as its '/'-separated segments
BucketKeyNew(method, path) ==
    LET s0 == Seg(path, 1)
        s1 == Seg(path, 2)
        s2 == Seg(path, 3)
    IN  CASE method = "PATCH" /\ s0 = "users" -> Key("UserEdit", s1)
          [] s0 = "users" /\ s2 = "default_avatar" -> Key("DefaultAvatar", "")
          [] s0 = "users" -> Key("Users", "")
          [] s0 = "bots" -> Key("Bots", "")
          [] method = "POST" /\ s0 = "channels" /\ s2 = "messages" -> Key("Messaging", s1)
          [] s0 = "channels" -> Key("Channels", s1)
          [] s0 = "servers" -> Key("Servers", s1)
          [] method = "DELETE" /\ s0 = "auth" -> Key("AuthDelete", "")
          [] s0 = "auth" -> Key("Auth", "")
          [] s0 = "swagger" -> Key("Swagger", "")
          [] s0 = "safety" /\ s1 = "report" -> Key("SafetyReport", "")
          [] s0 = "safety" -> Key("Safety", "")
          [] OTHER -> Key("Any", "")

\* BucketKey::limit
Limit(key) ==
    CASE key.fam = "Auth" -> 15
      [] key.fam = "AuthDelete" -> 255
      [] key.fam = "Bots" -> 10
      [] key.fam = "Channels" -> 15
      [] key.fam = "DefaultAvatar" -> 255
      [] key.fam = "Messaging" -> 10
      [] key.fam = "Safety" -> 15
      [] key.fam = "SafetyReport" -> 3
      [] key.fam = "Servers" -> 5
      [] key.fam = "Swagger" -> 100
      [] key.fam = "Users" -> 20
      [] key.fam = "UserEdit" -> 2
      [] key.fam = "Any" -> 20

NoBucket == [used |-> 0, reset |-> -1]
Bucket(used, reset) == [used |-> used, reset |-> reset]

\* Bucket::remaining: returns the bucket as it leaves it and the count
RemainingLate(b, limit, t) ==
    LET nb == IF t > b.reset THEN Bucket(0, t + Window) ELSE b
    IN  [bucket |-> nb, left |-> limit - Min(nb.used, limit)]
Remaining(b, limit, t) ==
    LET nb == IF t >= b.reset THEN Bucket(0, t + Window) ELSE b
    IN  [bucket |-> nb, left |-> limit - Min(nb.used, limit)]

\* Bucket::deduct: the bucket as it leaves it and Ok or Err(reset - now)
Ok == [ok |-> TRUE, retry |-> 0]
Err(d) == [ok |-> FALSE, retry |-> d]

DeductCounted(b, limit, t) ==
    LET r == Remaining(b, limit, t)
    IN  IF r.left > 0
        THEN [bucket |-> Bucket((r.bucket.used + 1) % U8, r.bucket.reset), res |-> Ok]
        ELSE [bucket |-> Bucket((r.bucket.used + 1) % U8, r.bucket.reset),
              res |-> Err(Max(0, r.bucket.reset - t))]
DeductOffByOne(b, limit, t) ==
    LET r == Remaining(b, limit, t)
    IN  IF r.left >= 0 /\ r.bucket.used <= limit
        THEN [bucket |-> Bucket((r.bucket.used + 1) % U8, r.bucket.reset), res |-> Ok]
        ELSE [bucket |-> r.bucket, res |-> Err(Max(0, r.bucket.reset - t))]
Deduct(b, limit, t) ==
    LET r == Remaining(b, limit, t)
    IN  IF r.left > 0
        THEN [bucket |-> Bucket((r.bucket.used + 1) % U8, r.bucket.reset), res |-> Ok]
        ELSE [bucket |-> r.bucket, res |-> Err(Max(0, r.bucket.reset - t))]

\* Buckets::take: the map as it leaves it and the result
TakeOf(bs, key, t) ==
    IF bs[key] # NoBucket
    THEN LET d == Deduct(bs[key], Limit(key), t)
         IN  [buckets |-> [bs EXCEPT ![key] = d.bucket], res |-> d.res]
    ELSE [buckets |-> [bs EXCEPT ![key] = Bucket(1, t + Window)], res |-> Ok]

\* the three rate-limit headers of a response; a header that is missing or does
\* not parse as u8 (u64 for reset-after) is NoHeader
NoHeader == -1
HdrValues == {0, 2, 5}
ResetValues == {1000}
Headers == [limit : HdrValues \cup {NoHeader}, remaining : HdrValues \cup {NoHeader},
            reset_after : ResetValues \cup {NoHeader}]
HdrParseable(h) == h.limit # NoHeader /\ h.remaining # NoHeader /\ h.reset_after # NoHeader

\* Buckets::handle_response
ObserveResetOnly(bs, key, h, t) ==
    IF HdrParseable(h) /\ bs[key] # NoBucket
    THEN [bs EXCEPT ![key] = Bucket(bs[key].used, t + h.reset_after)]
    ELSE bs
ObserveOf(bs, key, h, t) ==
    IF HdrParseable(h) /\ bs[key] # NoBucket
    THEN [bs EXCEPT ![key] = Bucket(Max(h.limit, h.remaining) - h.remaining,
                                    t + h.reset_after)]
    ELSE bs

----------------------------------------------------------------------------
(* volty-http/src/lib.rs, volty-http/src/error.rs *)

DefaultRetryAfter == 10000

\* Result<T, HttpError>: HttpError is Api(ApiError), Reqwest or Serde
HttpOk == [ok |-> TRUE, kind |-> "", err |-> "", retry |-> 0]
ApiError(err, retry) == [ok |-> FALSE, kind |-> "Api", err |-> err, retry |-> retry]
ReqwestError == [ok |-> FALSE, kind |-> "Reqwest", err |-> "", retry |-> 0]
SerdeError == [ok |-> FALSE, kind |-> "Serde", err |-> "", retry |-> 0]

\* Http::request: the bucket map as it leaves it, the key, and Ok(Request) or
\* Err(ApiError::RetryAfter(e))
RequestOf(bs, method, path, t) ==
    LET key == BucketKeyNew(method, path)
        r == TakeOf(bs, key, t)
    IN  [buckets |-> r.buckets, key |-> key,
         res |-> IF r.res.ok THEN HttpOk ELSE ApiError("RetryAfter", r.res.retry)]

\* what request.send() comes back with: no response at all, or a response with a
\* status, the rate-limit headers and a body.  Bodies: "T" decodes as the type
\* asked for, "retry_after" is a map with retry_after, "map" a map without it,
\* "api_error" decodes as ApiError, "garbage" is no JSON, "unreadable" fails in
\* response.text()
RetryBodies == {3000}
BodyRetryAfter == CHOOSE r \in RetryBodies : TRUE
Bodies == {"T", "retry_after", "map", "api_error", "garbage", "unreadable"}
HttpHeaders == {[limit |-> NoHeader, remaining |-> NoHeader, reset_after |-> NoHeader],
                [limit |-> 5, remaining |-> 0, reset_after |-> 1000],
                [limit |-> 2, remaining |-> 1, reset_after |-> 1000]}
NoResponse == [arrived |-> FALSE, status |-> 0, headers |-> CHOOSE h \in HttpHeaders : TRUE,
               body |-> "unreadable"]
Responses == {NoResponse}
               \cup [arrived : {TRUE}, status : {200, 429, 403}, headers : HttpHeaders,
                     body : Bodies]

\* Http::handle_response: the outcome, once the bucket has observed the response
Classify(resp) ==
    IF ~resp.arrived THEN ApiError("LabelMe", 0)
    ELSE IF resp.body = "unreadable" THEN ReqwestError
    ELSE IF resp.status = 200
    THEN IF resp.body = "T" THEN HttpOk ELSE SerdeError
    ELSE IF resp.status = 429
    THEN ApiError("RetryAfter",
                  IF resp.body = "retry_after" THEN BodyRetryAfter ELSE DefaultRetryAfter)
    ELSE IF resp.body = "api_error" THEN ApiError("Decoded", 0) ELSE SerdeError

HandleResponseOf(bs, key, resp, t) ==
    [buckets |-> IF resp.arrived THEN ObserveOf(bs, key, resp.headers, t) ELSE bs,
     res |-> Classify(resp)]

\* the endpoints: routes/users/user_edit.rs, routes/servers/member_ban.rs
Endpoints == {[name |-> "edit_user", method |-> "PATCH", path |-> <<"users", "x">>],
              [name |-> "ban_member", method |-> "PUT",
               path |-> <<"servers", "x", "bans", "u">>]}
\* routes/autumn/upload_file.rs: the key handed to handle_response
UploadKey == Key("Channels", "autumn")

Tasks == {"t1"}
Idle == [st |-> "idle", name |-> "", key |-> Key("Any", ""), took |-> FALSE]

----------------------------------------------------------------------------
(* volty-ws/src/lib.rs *)

HEARTBEAT == 30000
ErrorSleep == 5000
RetrySleep == 5000

\* ServerMessage: an event, or Bulk with the events nested in it
ServerMessages == {[type |-> "Message", v |-> <<>>],
                   [type |-> "Bulk", v |-> <<"Message", "Pong">>]}
NoMessage == [type |-> "None", v |-> <<>>]

\* what rx.next() yields: Some(Ok(frame)), Some(Err(e)) or None at the end of
\* the stream.  A Binary frame holds msgpack of a ServerMessage or bytes that
\* do not decode; data is the error kind of an Err
Msgpack(msg) == [fmt |-> "msgpack", msg |-> msg]
Garbage == [fmt |-> "garbage", msg |-> NoMessage]
FrameCases == {[kind |-> "Binary", data |-> Msgpack(m)] : m \in ServerMessages}
                \cup {[kind |-> "Binary", data |-> Garbage],
                      [kind |-> "Text", data |-> Msgpack(CHOOSE m \in ServerMessages : TRUE)]}
Recoverable == {"ConnectionClosed", "AlreadyClosed", "Io", "Tls", "Protocol"}
ReadErrors == {"Protocol", "Capacity"}
WriteErrors == {"ConnectionClosed", "WriteBufferFull"}
EndCases == {[kind |-> "Err", data |-> e] : e \in ReadErrors}
              \cup {[kind |-> "Eof", data |-> ""]}
Item(id, conn, c) == [id |-> id, conn |-> conn, kind |-> c.kind, data |-> c.data]

\* parse_msg
ParseMsgAnyFrame(item) ==
    IF item.data.fmt = "msgpack" THEN item.data.msg ELSE NoMessage
ParseMsgFirstOfBulk(item) ==
    IF item.kind = "Binary"
    THEN IF item.data.fmt = "msgpack"
         THEN IF item.data.msg.type = "Bulk"
              THEN [type |-> item.data.msg.v[1], v |-> <<>>]
              ELSE item.data.msg
         ELSE NoMessage
    ELSE NoMessage
ParseMsg(item) ==
    IF item.kind = "Binary"
    THEN IF item.data.fmt = "msgpack" THEN item.data.msg ELSE NoMessage
    ELSE NoMessage

\* WebSocket::check_error: reconnect after a sleep, or panic
CheckErrorRetriesAll(e) == "reconnect"
CheckError(e) == IF e \in Recoverable THEN "reconnect" ELSE "panic"

\* retrying_connect: the attempts that fail before one connects
ConnectFails == {0, 1}

\* WebSocket::reconnect, finished at time t: a new tx and rx, last_message = t
Reconnect(w, t) ==
    [w EXCEPT !.conn = w.conn + 1, !.rx = <<>>, !.partial = <<>>, !.last_message = t]

\* the stream when select! drops the read that was pending on it: the frames it
\* buffers, whole or in part, belong to rx, not to the future rx.next()
CancelReadLosesPartial(w) == [w EXCEPT !.partial = <<>>]
CancelRead(w) == w

----------------------------------------------------------------------------
(* volty-ws/src/cache.rs: the tables of InnerCache and the values of       *)
(* volty-types they hold.  A table is a function whose domain is the set   *)
(* of cached ids; NoId stands for None.                                    *)

MaxUsers == 2
MaxMessages == 2
MaxMembers == 2

NoId == "none"
UserIds == {"u1", "u2", "u3"}
ServerIds == {"s1", "s2"}
MessageIds == {"m1", "m2", "m3"}
Handlers == {"h1", "h2"}

Empty == [x \in {} |-> x]
Put(m, k, v) == [x \in (DOMAIN m) \cup {k} |-> IF x = k THEN v ELSE m[x]]
Del(m, k) == [x \in (DOMAIN m) \ {k} |-> m[x]]

\* insert into a moka cache of the given capacity: when the insert takes the
\* cache over its capacity an older entry goes; which one depends on the
\* recency of the reads, so it is the caller's choice "pick" when that is an
\* older entry and some older entry otherwise
LruPut(m, k, v, capacity, pick) ==
    LET m2 == Put(m, k, v)
        older == (DOMAIN m2) \ {k}
    IN  IF Cardinality(DOMAIN m2) <= capacity THEN m2
        ELSE Del(m2, IF pick \in older THEN pick ELSE CHOOSE x \in older : TRUE)

\* a run of inserts into a moka cache: entries is a set of <<key, value>>
RECURSIVE PutAll(_, _, _, _)
PutAll(m, entries, capacity, pick) ==
    IF entries = {} THEN m
    ELSE LET e == CHOOSE x \in entries : TRUE
         IN  PutAll(LruPut(m, e[1], e[2], capacity, pick), entries \ {e},
                    capacity, pick)

\* HashMap from a Vec of values with distinct ids
ById(values) == [id \in {v.id : v \in values} |-> CHOOSE v \in values : v.id = id]

\* User: relationship is the session user's relationship with this user
NewUser(id, relationship) ==
    [id |-> id, relationship |-> relationship, display_name |-> "n0",
     status_text |-> "t0"]

\* PartialUser::apply_options followed by FieldsUser::remove for each cleared
\* field: data holds the new display name or NoId for None
ApplyUser(user, data, clear) ==
    LET u1 == IF data.display_name # NoId
              THEN [user EXCEPT !.display_name = data.display_name] ELSE user
        u2 == IF "DisplayName" \in clear THEN [u1 EXCEPT !.display_name = NoId]
              ELSE u1
    IN  IF "StatusText" \in clear THEN [u2 EXCEPT !.status_text = NoId] ELSE u2

\* Channel, with the fields of the five variants that the cache reads
NewChannel(channel_type, id, server_id, recipients) ==
    [channel_type |-> channel_type, id |-> id, server_id |-> server_id,
     recipients |-> recipients, last_message_id |-> NoId, description |-> "d0"]

\* PartialChannel::apply followed by FieldsChannel::remove for each cleared
\* field
ApplyChannel(channel, data, clear) ==
    LET t == channel.channel_type
        c1 == IF data.description # NoId /\ t \in {"Group", "TextChannel", "VoiceChannel"}
              THEN [channel EXCEPT !.description = data.description] ELSE channel
        c2 == IF data.last_message_id # NoId
                 /\ t \in {"DirectMessage", "Group", "TextChannel"}
              THEN [c1 EXCEPT !.last_message_id = data.last_message_id] ELSE c1
    IN  IF "Description" \in clear /\ t \in {"Group", "TextChannel", "VoiceChannel"}
        THEN [c2 EXCEPT !.description = NoId] ELSE c2

\* Server with its channel list and its role ids; an Emoji is [id, parent]
\* with parent the id of EmojiParent::Server or NoId for Detached; a Message
\* is [id, channel, author, content]
NewServer(id, channels, roles) == [id |-> id, channels |-> channels, roles |-> roles]
\* a member as the server sends it; joined_at is the server's timestamp
NewMember(server, user, roles) ==
    [server |-> server, user |-> user, roles |-> roles, joined_at |-> 0]

\* Member::new: a member without roles whose joined_at is Timestamp::now_utc()
MemberNew(server, user) == [NewMember(server, user, {}) EXCEPT !.joined_at = now]

\* A MemberCache is [full, of]: Partial (a moka cache) when full is FALSE,
\* else Full

Mention(id) == <<"<@", id, ">">>

NewCache ==
    [user_id |-> NoId, user_mention |-> <<>>, user |-> [id |-> NoId, relationship |-> NoId, display_name |-> NoId,
               status_text |-> NoId],
     users |-> Empty, servers |-> Empty, channels |-> Empty, emojis |-> Empty,
     members |-> Empty, messages |-> Empty, user_dms |-> Empty,
     panicked |-> FALSE]

\* recipients.iter().find(|i| i != user_id): a DirectMessage has two
\* recipients, so at most one differs from user_id when user_id is one of them
OtherOf(channel, user_id) ==
    IF channel.recipients \ {user_id} = {} THEN NoId
    ELSE CHOOSE i \in channel.recipients \ {user_id} : TRUE

\* OnceLock::get_or_init: the first value stays
InitReplaces(old, new, unset) == new

GetOrInit(old, new, unset) == IF old = unset THEN new ELSE old

\* ServerMessage::Ready
ReadyExtends(c, ev, pick) ==
    LET selves == {u \in ev.users : u.relationship = "User"}
    IN  IF selves = {} THEN [c EXCEPT !.panicked = TRUE]
        ELSE
        LET user == CHOOSE u \in selves : TRUE
            user_id == user.id
            dms == {ch \in ev.channels : ch.channel_type = "DirectMessage"}
            found == {ch \in dms : OtherOf(ch, user_id) # NoId}
            user_dms == [o \in {OtherOf(ch, user_id) : ch \in found} |->
                            (CHOOSE ch \in found : OtherOf(ch, user_id) = o).id]
            c1 == [c EXCEPT
                     !.user_id = GetOrInit(@, user_id, NoId),
                     !.user_mention = GetOrInit(@, Mention(user_id), <<>>),
                     !.user = user,
                     !.users = PutAll(Empty, {<<u.id, u>> : u \in ev.users},
                                      MaxUsers, pick),
                     !.servers = [id \in DOMAIN @ \cup DOMAIN ById(ev.servers) |->
                                     IF id \in DOMAIN ById(ev.servers)
                                     THEN ById(ev.servers)[id] ELSE @[id]],
                     !.user_dms = user_dms]
            new_members ==
                [s \in {m.server : m \in ev.members} |->
                    [full |-> FALSE,
                     of |-> PutAll(Empty,
                        {<<m.user, m>> : m \in {x \in ev.members : x.server = s}},
                        MaxMembers, pick)]]
        IN  IF found # dms THEN [c1 EXCEPT !.panicked = TRUE]
            ELSE [c1 EXCEPT !.channels = ById(ev.channels),
                            !.emojis = ById(ev.emojis),
                            !.members = new_members,
                            !.messages = Empty]
UpdateReady(c, ev, pick) ==
    LET selves == {u \in ev.users : u.relationship = "User"}
    IN  IF selves = {} THEN [c EXCEPT !.panicked = TRUE]
        ELSE
        LET user == CHOOSE u \in selves : TRUE
            user_id == user.id
            dms == {ch \in ev.channels : ch.channel_type = "DirectMessage"}
            found == {ch \in dms : OtherOf(ch, user_id) # NoId}
            user_dms == [o \in {OtherOf(ch, user_id) : ch \in found} |->
                            (CHOOSE ch \in found : OtherOf(ch, user_id) = o).id]
            c1 == [c EXCEPT
                     !.user_id = GetOrInit(@, user_id, NoId),
                     !.user_mention = GetOrInit(@, Mention(user_id), <<>>),
                     !.user = user,
                     !.users = PutAll(Empty, {<<u.id, u>> : u \in ev.users},
                                      MaxUsers, pick),
                     !.servers = ById(ev.servers),
                     !.user_dms = user_dms]
            new_members ==
                [s \in {m.server : m \in ev.members} |->
                    [full |-> FALSE,
                     of |-> PutAll(Empty,
                        {<<m.user, m>> : m \in {x \in ev.members : x.server = s}},
                        MaxMembers, pick)]]
        IN  IF found # dms THEN [c1 EXCEPT !.panicked = TRUE]
            ELSE [c1 EXCEPT !.channels = ById(ev.channels),
                            !.emojis = ById(ev.emojis),
                            !.members = new_members,
                            !.messages = Empty]

\* ServerMessage::Message
MessageKeepsLastId(c, ev, pick) ==
    [c EXCEPT !.messages = LruPut(@, ev.message.id, ev.message, MaxMessages, pick)]

UpdateMessage(c, ev, pick) ==
    LET id == ev.message.channel
        c1 == IF id \in DOMAIN c.channels
                 /\ c.channels[id].channel_type
                        \in {"DirectMessage", "Group", "TextChannel"}
              THEN [c EXCEPT !.channels[id].last_message_id = ev.message.id]
              ELSE c
    IN  [c1 EXCEPT !.messages = LruPut(@, ev.message.id, ev.message,
                                       MaxMessages, pick)]

\* ServerMessage::ChannelCreate; user_id() panics before the first Ready
ChannelCreateSkipsDms(c, ev) ==
    [c EXCEPT !.channels = Put(@, ev.channel.id, ev.channel)]

UpdateChannelCreate(c, ev) ==
    LET channel == ev.channel
        other == OtherOf(channel, c.user_id)
    IN  IF channel.channel_type = "DirectMessage"
        THEN IF c.user_id = NoId \/ other = NoId THEN [c EXCEPT !.panicked = TRUE]
             ELSE [c EXCEPT !.user_dms = Put(@, other, channel.id),
                            !.channels = Put(@, channel.id, channel)]
        ELSE [c EXCEPT !.channels = Put(@, channel.id, channel)]

\* ServerMessage::ChannelDelete
ChannelDeleteKeepsDms(c, ev) ==
    [c EXCEPT !.channels = Del(@, ev.id)]

UpdateChannelDelete(c, ev) ==
    IF ev.id \in DOMAIN c.channels
       /\ c.channels[ev.id].channel_type = "DirectMessage"
    THEN LET other == OtherOf(c.channels[ev.id], c.user_id)
             c1 == [c EXCEPT !.channels = Del(@, ev.id)]
         IN  IF c.user_id = NoId \/ other = NoId THEN [c1 EXCEPT !.panicked = TRUE]
             ELSE [c1 EXCEPT !.user_dms = Del(@, other)]
    ELSE [c EXCEPT !.channels = Del(@, ev.id)]

\* ServerMessage::ServerCreate; user_id() panics before the first Ready,
\* after the server, its channels and its emojis went in
UpdateServerCreate(c, ev) ==
    LET c1 == [c EXCEPT
                 !.servers = Put(@, ev.id, ev.server),
                 !.channels = [x \in (DOMAIN @) \cup {ch.id : ch \in ev.channels} |->
                                  IF x \in {ch.id : ch \in ev.channels}
                                  THEN ById(ev.channels)[x] ELSE @[x]],
                 !.emojis = [x \in (DOMAIN @) \cup {e.id : e \in ev.emojis} |->
                                IF x \in {e.id : e \in ev.emojis}
                                THEN ById(ev.emojis)[x] ELSE @[x]]]
    IN  IF c.user_id = NoId THEN [c1 EXCEPT !.panicked = TRUE]
        ELSE [c1 EXCEPT !.members = Put(@, ev.id,
                  [full |-> FALSE,
                   of |-> Put(Empty, c.user_id, MemberNew(ev.id, c.user_id))])]

\* ServerMessage::ServerDelete
UpdateServerDelete(c, ev) ==
    [c EXCEPT
       !.servers = Del(@, ev.id),
       !.members = Del(@, ev.id),
       !.channels = [x \in {y \in DOMAIN @ : @[y].server_id # ev.id} |-> @[x]],
       !.emojis = [x \in {y \in DOMAIN @ : @[y].parent = ev.id} |-> @[x]]]

\* ServerMessage::ServerMemberLeave
UpdateServerMemberLeave(c, ev) ==
    IF c.user_id # NoId /\ ev.user_id = c.user_id
    THEN IF ev.id \in DOMAIN c.servers
         THEN [c EXCEPT
                 !.servers = Del(@, ev.id),
                 !.channels = [x \in (DOMAIN @) \ c.servers[ev.id].channels |-> @[x]],
                 !.members = Del(@, ev.id)]
         ELSE c
    ELSE IF ev.id \in DOMAIN c.members
         THEN [c EXCEPT !.members[ev.id].of = Del(@, ev.user_id)]
         ELSE c

\* ServerMessage::ServerRoleDelete
RoleDeleteServerOnly(c, ev) ==
    IF ev.id \in DOMAIN c.servers
    THEN [c EXCEPT !.servers[ev.id].roles = @ \ {ev.role_id}]
    ELSE c

UpdateServerRoleDelete(c, ev) ==
    LET c1 == IF ev.id \in DOMAIN c.servers
              THEN [c EXCEPT !.servers[ev.id].roles = @ \ {ev.role_id}]
              ELSE c
    IN  IF ev.id \in DOMAIN c1.members
        THEN [c1 EXCEPT !.members[ev.id].of =
                [u \in DOMAIN @ |-> [@[u] EXCEPT !.roles = @ \ {ev.role_id}]]]
        ELSE c1

\* ServerMessage::UserUpdate; user_id() panics before the first Ready
UpdateUserUpdate(c, ev, pick) ==
    IF ev.id \in DOMAIN c.users
    THEN LET user == ApplyUser(c.users[ev.id], ev.data, ev.clear)
         IN  IF c.user_id = NoId THEN [c EXCEPT !.panicked = TRUE]
             ELSE [c EXCEPT !.user = IF user.id = c.user_id THEN user ELSE @,
                            !.users = LruPut(@, ev.id, user, MaxUsers, pick)]
    ELSE c

\* UpdateCache::update: one ServerMessage applied to the tables.  The arms
\* that are not listed leave the cache alone.
RECURSIVE UpdateSeq(_, _, _)
UpdateOf(c, ev, pick) ==
    CASE ev.type = "Bulk" -> UpdateSeq(c, ev.v, pick)
      [] ev.type = "Ready" -> UpdateReady(c, ev, pick)
      [] ev.type = "Message" -> UpdateMessage(c, ev, pick)
      [] ev.type = "ChannelCreate" -> UpdateChannelCreate(c, ev)
      [] ev.type = "ChannelUpdate" ->
            IF ev.id \in DOMAIN c.channels
            THEN [c EXCEPT !.channels[ev.id] = ApplyChannel(@, ev.data, ev.clear)]
            ELSE c
      [] ev.type = "ChannelDelete" -> UpdateChannelDelete(c, ev)
      [] ev.type = "ServerCreate" -> UpdateServerCreate(c, ev)
      [] ev.type = "ServerDelete" -> UpdateServerDelete(c, ev)
      [] ev.type = "ServerMemberJoin" ->
            IF ev.id \in DOMAIN c.members
            THEN [c EXCEPT !.members[ev.id].of =
                    IF c.members[ev.id].full
                    THEN Put(@, ev.user_id, MemberNew(ev.id, ev.user_id))
                    ELSE LruPut(@, ev.user_id, MemberNew(ev.id, ev.user_id),
                                MaxMembers, pick)]
            ELSE c
      [] ev.type = "ServerMemberLeave" -> UpdateServerMemberLeave(c, ev)
      [] ev.type = "ServerRoleUpdate" ->
            IF ev.id \in DOMAIN c.servers
            THEN [c EXCEPT !.servers[ev.id].roles = @ \cup {ev.role_id}]
            ELSE c
      [] ev.type = "ServerRoleDelete" -> UpdateServerRoleDelete(c, ev)
      [] ev.type = "UserUpdate" -> UpdateUserUpdate(c, ev, pick)
      [] ev.type = "UserRelationship" ->
            [c EXCEPT !.users = LruPut(@, ev.id, ev.user, MaxUsers, pick)]
      [] ev.type = "UserPlatformWipe" -> [c EXCEPT !.users = Del(@, ev.user_id)]
      [] ev.type = "EmojiCreate" -> [c EXCEPT !.emojis = Put(@, ev.emoji.id, ev.emoji)]
      [] ev.type = "EmojiDelete" -> [c EXCEPT !.emojis = Del(@, ev.id)]
      [] OTHER -> c

\* the loop of the Bulk arm; a panic inside ends it
UpdateSeq(c, v, pick) ==
    IF v = <<>> \/ c.panicked THEN c
    ELSE UpdateSeq(UpdateOf(c, Head(v), pick), Tail(v), pick)

\* the keys of the fetch-through calls: a member of a server, or a user
\* (server is NoId)
FetchKeys == {[server |-> "s1", user |-> "u2"], [server |-> NoId, user |-> "u2"]}

\* a handler task that has not been spawned; a result is Ok(value) or
\* Err(value)
NoCall == [pc |-> "none", key |-> [server |-> NoId, user |-> NoId],
           res |-> [ok |-> FALSE, value |-> "none"]]

\* the task that loops in next() and a task that calls send() on a clone
SessionTasks == {"next", "send"}

----------------------------------------------------------------------------
(* What the first window of a bucket saw, for the claims that count takes *)

NoHist == [oks |-> 0, refused |-> FALSE, okAfterRefusal |-> FALSE, end |-> -1]

HistTake(h, fresh, res, t) ==
    IF fresh
    THEN [oks |-> 1, refused |-> FALSE, okAfterRefusal |-> FALSE, end |-> t + Window]
    ELSE IF t < h.end
    THEN IF res.ok
         THEN [h EXCEPT !.oks = Min(h.oks + 1, MaxCount), !.okAfterRefusal = h.refused]
         ELSE [h EXCEPT !.refused = TRUE]
    ELSE h

----------------------------------------------------------------------------
(* The calls on Buckets *)

NoScript == [step |-> 0, results |-> <<>>, end |-> -1, inWindow |-> TRUE]

Init ==
    /\ now = 0
    /\ buckets = [k \in Keys |-> NoBucket]
    /\ last = [op |-> "init"]
    /\ hist = [k \in Keys |-> NoHist]
    /\ seen = [k \in Keys |-> 0]
    /\ script = NoScript
    /\ tasks = [t \in Tasks |-> Idle]
    /\ wire = {}
    /\ ws = [pc |-> "idle", last_message |-> 0, deadline |-> 0, conn |-> 0,
             rx |-> <<>>, partial |-> <<>>]
    /\ wsHist = [all |-> <<>>, handled |-> <<>>, returned |-> <<>>, pings |-> 0,
                 quiet |-> TRUE, cut |-> {}]
    /\ session = [tx |-> [holder |-> "none", conn |-> 0],
                  rx |-> [holder |-> "none", conn |-> 0],
                  last_message |-> [by |-> "none", at |-> "connect"],
                  conns |-> 0,
                  written |-> [by |-> "none", m |-> "none", conn |-> 0],
                  task |-> [t \in SessionTasks |->
                              [pc |-> IF t = "next" THEN "top" ELSE "idle",
                               m |-> "none", ret |-> "top", fresh |-> 0,
                               fails |-> 0, retried |-> FALSE]]]
    /\ cache = NewCache
    /\ cacheLast = [ev |-> [type |-> "None"], tick |-> 0, readys |-> 0]
    /\ fetches = [h \in Handlers |-> [pc |-> "idle", server |-> NoId]]
    /\ flights = [call |-> [i \in 1..MaxEvents |-> NoCall],
                  sent |-> [k \in FetchKeys |-> 0]]
    /\ driver = [pc |-> "next", pulled |-> <<>>, applied |-> 0, spawned |-> 0]
    /\ replica = [cache |-> NewCache, pending |-> <<>>]

\* Buckets::take(key)
Take(key) ==
    LET r == TakeOf(buckets, key, now)
    IN  /\ buckets' = r.buckets
        /\ last' = [op |-> "take", key |-> key, res |-> r.res]
        /\ UNCHANGED <<now, seen, httpVars, wsVars, cacheVars>>

\* the takes of the first window of a key are counted
Counted(key) ==
    hist' = [hist EXCEPT ![key] = HistTake(hist[key], buckets[key] = NoBucket,
                                           TakeOf(buckets, key, now).res, now)]

\* Buckets::handle_response(key, response)
Observe(key, h) ==
    /\ buckets' = ObserveOf(buckets, key, h, now)
    /\ seen' = IF buckets' # buckets THEN [seen EXCEPT ![key] = h.limit] ELSE seen
    /\ last' = [op |-> "observe", key |-> key]
    /\ UNCHANGED <<now, hist, httpVars, wsVars, cacheVars>>

TickSteps == {500, 5000}

Tick ==
    \E d \in TickSteps :
        /\ now + d <= MaxTime
        /\ now' = now + d
        /\ last' = [op |-> "tick"]
        /\ UNCHANGED <<bucketVars, script, httpVars, wsVars, cacheVars>>

Alone(k) == \A j \in Keys \ {k} : buckets[j] = NoBucket

\* any sequence of take and observe on a key with a small limit
SmallKeys == {Key("UserEdit", "x"), Key("SafetyReport", "")}

NextBuckets ==
    \/ \E k \in SmallKeys : Alone(k) /\ Take(k) /\ UNCHANGED <<hist, script>>
    \/ \E k \in SmallKeys, h \in Headers : Alone(k) /\ Observe(k, h) /\ UNCHANGED script
    \/ Tick

SpecBuckets == Init /\ [][NextBuckets]_vars

\* repeated take, within one window, on one key that had no bucket; no observe
InFirstWindow(k) == buckets[k] = NoBucket \/ now < hist[k].end

NextTake ==
    \/ \E k \in Keys : Alone(k) /\ InFirstWindow(k) /\ Take(k) /\ Counted(k)
                          /\ UNCHANGED script
    \/ Tick

SpecTake == Init /\ [][NextTake]_vars

\* the reconcile scenario: eleven takes of Messaging(x), one observe of
\* limit=10, remaining=5, reset-after=1000, six more takes
MessagingX == Key("Messaging", "x")
ReconcileHeaders == [limit |-> 10, remaining |-> 5, reset_after |-> 1000]
TakeSteps == (0 .. 10) \cup (12 .. 17)

ScriptTake ==
    /\ script.step \in TakeSteps
    /\ Take(MessagingX)
    /\ script' = [step |-> script.step + 1,
                  results |-> Append(script.results, TakeOf(buckets, MessagingX, now).res),
                  end |-> IF script.step = 0 THEN now + Window ELSE script.end,
                  inWindow |-> script.inWindow /\ (script.step = 0 \/ now < script.end)]
    /\ UNCHANGED hist

ScriptObserve ==
    /\ script.step = 11
    /\ Observe(MessagingX, ReconcileHeaders)
    /\ script' = [script EXCEPT !.step = 12, !.end = now + ReconcileHeaders.reset_after]

NextReconcile ==
    \/ ScriptTake
    \/ ScriptObserve
    \/ Tick

SpecReconcile == Init /\ [][NextReconcile]_vars

----------------------------------------------------------------------------
(* The calls on Http, one task per caller *)

\* Http::request, as the endpoints call it
HttpRequest(t, ep) ==
    LET r == RequestOf(buckets, ep.method, ep.path, now)
    IN  /\ tasks[t].st = "idle"
        /\ buckets' = r.buckets
        /\ tasks' = IF r.res.ok
                    THEN [tasks EXCEPT ![t] = [st |-> "built", name |-> ep.name,
                                               key |-> r.key, took |-> TRUE]]
                    ELSE tasks
        /\ last' = [op |-> "request", task |-> t, key |-> r.key, res |-> r.res]
        /\ UNCHANGED <<now, hist, seen, script, wire, wsVars, cacheVars>>

\* Http::send_request up to request.send()
HttpSend(t) ==
    /\ tasks[t].st = "built"
    /\ tasks' = [tasks EXCEPT ![t].st = "sent"]
    /\ wire' = wire \cup {[name |-> tasks[t].name, key |-> tasks[t].key,
                           took |-> tasks[t].took]}
    /\ last' = [op |-> "send", task |-> t]
    /\ UNCHANGED <<now, bucketVars, script, wsVars, cacheVars>>

\* Http::upload_file up to request.send()
HttpUpload(t) ==
    /\ tasks[t].st = "idle"
    /\ tasks' = [tasks EXCEPT ![t] = [st |-> "sent", name |-> "upload_file",
                                      key |-> UploadKey, took |-> FALSE]]
    /\ wire' = wire \cup {[name |-> "upload_file", key |-> UploadKey, took |-> FALSE]}
    /\ last' = [op |-> "send", task |-> t]
    /\ UNCHANGED <<now, bucketVars, script, wsVars, cacheVars>>

\* Http::handle_response, on what send() came back with
HttpRespond(t, resp) ==
    LET r == HandleResponseOf(buckets, tasks[t].key, resp, now)
    IN  /\ tasks[t].st = "sent"
        /\ buckets' = r.buckets
        /\ seen' = IF buckets' # buckets
                   THEN [seen EXCEPT ![tasks[t].key] = resp.headers.limit] ELSE seen
        /\ tasks' = [tasks EXCEPT ![t] = Idle]
        /\ last' = [op |-> "response", task |-> t, key |-> tasks[t].key,
                    arrived |-> resp.arrived, res |-> r.res]
        /\ UNCHANGED <<now, hist, script, wire, wsVars, cacheVars>>

\* a run keeps to one endpoint of the API, next to the uploads
NextHttp ==
    \/ \E t \in Tasks, ep \in Endpoints :
           Alone(BucketKeyNew(ep.method, ep.path)) /\ HttpRequest(t, ep)
    \/ \E t \in Tasks : HttpSend(t)
    \/ \E t \in Tasks : HttpUpload(t)
    \/ \E t \in Tasks, resp \in Responses : HttpRespond(t, resp)
    \/ Tick

SpecHttp == Init /\ [][NextHttp]_vars

----------------------------------------------------------------------------
(* The gateway session: one task calling next() in a loop, and the server *)

OtherVars == <<bucketVars, script, httpVars, cacheVars, session>>

\* the caller is busy between two calls of next()
IdleSteps == {60000}
WsIdle ==
    \E d \in IdleSteps :
        /\ ws.pc = "idle"
        /\ now + d <= MaxWsTime
        /\ now' = now + d
        /\ wsHist' = [wsHist EXCEPT !.quiet = FALSE]
        /\ last' = [op |-> "ws_idle"]
        /\ UNCHANGED <<ws, OtherVars>>

\* WebSocket::next is called
WsCallNext ==
    /\ ws.pc = "idle"
    /\ ws' = [ws EXCEPT !.pc = "top"]
    /\ last' = [op |-> "ws_call"]
    /\ UNCHANGED <<now, wsHist, OtherVars>>

\* next(), from the top of the loop to the select!: reconnect when nothing was
\* heard for two heartbeats (after `fails` failed attempts to connect), then
\* arm the heartbeat
WsLoopTop ==
    \E fails \in ConnectFails :
        LET dead == now - ws.last_message >= HEARTBEAT * 2
            t == IF dead THEN now + fails * RetrySleep ELSE now
            w == IF dead THEN Reconnect(ws, t) ELSE ws
            last_ms == t - w.last_message
        IN  /\ ws.pc = "top"
            /\ dead \/ fails = 0
            /\ t <= MaxWsTime
            /\ now' = t
            /\ ws' = [w EXCEPT !.pc = "select",
                               !.deadline = t + (HEARTBEAT - Min(last_ms, HEARTBEAT))]
            /\ last' = [op |-> "ws_top", reconnected |-> dead]
            /\ UNCHANGED <<wsHist, OtherVars>>

\* time passes while the select! waits
WaitSteps == {10000}
WsWait ==
    \E t \in {ws.deadline} \cup {now + d : d \in WaitSteps} :
        /\ ws.pc = "select"
        /\ now < t
        /\ t <= ws.deadline
        /\ t <= MaxWsTime
        /\ now' = t
        /\ last' = [op |-> "ws_wait"]
        /\ UNCHANGED <<wsVars, OtherVars>>

\* the server sends a whole frame, or the stream fails or ends
Delivered == Len(wsHist.all)
ServerDeliver ==
    \E c \in FrameCases \cup EndCases :
        LET item == Item(Delivered + 1, ws.conn, c)
        IN  /\ Delivered < MaxFrames
            /\ ws.pc # "panicked"
            /\ ws.partial = <<>>
            /\ ws' = [ws EXCEPT !.rx = Append(ws.rx, item)]
            /\ wsHist' = [wsHist EXCEPT !.all = Append(wsHist.all, item), !.quiet = FALSE]
            /\ last' = [op |-> "ws_deliver"]
            /\ UNCHANGED <<now, OtherVars>>

\* the first bytes of a frame arrive: the stream holds them, no frame is ready
ServerDeliverPart ==
    \E c \in FrameCases :
        LET item == Item(Delivered + 1, ws.conn, c)
        IN  /\ Delivered < MaxFrames
            /\ ws.pc # "panicked"
            /\ ws.partial = <<>>
            /\ ws' = [ws EXCEPT !.partial = <<item>>]
            /\ wsHist' = [wsHist EXCEPT !.all = Append(wsHist.all, item), !.quiet = FALSE]
            /\ last' = [op |-> "ws_part"]
            /\ UNCHANGED <<now, OtherVars>>

\* the rest of the frame arrives
ServerDeliverRest ==
    /\ ws.partial # <<>>
    /\ ws' = [ws EXCEPT !.rx = ws.rx \o ws.partial, !.partial = <<>>]
    /\ last' = [op |-> "ws_rest"]
    /\ UNCHANGED <<now, wsHist, OtherVars>>

\* the message arm of the select!, then handle_message
WsSelectMessage ==
    \E fails \in ConnectFails :
        LET item == Head(ws.rx)
            w == [ws EXCEPT !.rx = Tail(ws.rx), !.last_message = now]
            msg == ParseMsg(item)
            verdict == IF item.kind = "Err" THEN CheckError(item.data) ELSE "reconnect"
            reconnects == item.kind = "Eof" \/ (item.kind = "Err" /\ verdict = "reconnect")
            t == IF item.kind = "Eof" THEN now + fails * RetrySleep
                 ELSE IF reconnects THEN now + ErrorSleep + fails * RetrySleep
                 ELSE now
        IN  /\ ws.pc = "select"
            /\ ws.rx # <<>>
            /\ reconnects \/ fails = 0
            /\ t <= MaxWsTime
            /\ now' = t
            /\ ws' = IF reconnects THEN [Reconnect(w, t) EXCEPT !.pc = "top"]
                     ELSE IF item.kind = "Err" THEN [w EXCEPT !.pc = "panicked"]
                     ELSE IF msg # NoMessage THEN [w EXCEPT !.pc = "idle"]
                     ELSE [w EXCEPT !.pc = "top"]
            /\ wsHist' = [wsHist EXCEPT
                              !.handled = Append(wsHist.handled, item),
                              !.returned = IF item.kind \in {"Binary", "Text"} /\ msg # NoMessage
                                           THEN Append(wsHist.returned,
                                                       [id |-> item.id, msg |-> msg])
                                           ELSE wsHist.returned]
            /\ last' = [op |-> "ws_message", item |-> item]
            /\ UNCHANGED OtherVars

\* the heartbeat arm of the select!: the read is dropped, send_ping begins
WsSelectHeartbeat ==
    /\ ws.pc = "select"
    /\ now >= ws.deadline
    /\ ws' = [CancelRead(ws) EXCEPT !.pc = "sending"]
    /\ wsHist' = [wsHist EXCEPT !.cut = @ \cup {ws.partial[i].id : i \in DOMAIN ws.partial}]
    /\ last' = [op |-> "ws_heartbeat"]
    /\ UNCHANGED <<now, OtherVars>>

\* WebSocket::send of the Ping: one write, and check_error when it fails
WsSendPing ==
    \E fails \in ConnectFails, e \in WriteErrors \cup {"written"} :
        LET failed == e # "written"
            recovers == failed /\ CheckError(e) = "reconnect"
            t == IF recovers THEN now + ErrorSleep + fails * RetrySleep ELSE now
            w == [ws EXCEPT !.last_message = now]
        IN  /\ ws.pc = "sending"
            /\ recovers \/ fails = 0
            /\ failed => ws.conn < MaxConn
            /\ t <= MaxWsTime
            /\ now' = t
            /\ ws' = IF recovers THEN Reconnect(w, t)
                     ELSE IF failed THEN [w EXCEPT !.pc = "panicked"]
                     ELSE [w EXCEPT !.pc = "top"]
            /\ wsHist' = [wsHist EXCEPT !.pings = IF failed THEN @ ELSE @ + 1,
                                        !.quiet = IF failed THEN FALSE ELSE @]
            /\ last' = [op |-> "ws_send", error |-> e]
            /\ UNCHANGED OtherVars

NextWs ==
    \/ WsIdle
    \/ WsCallNext
    \/ WsLoopTop
    \/ WsWait
    \/ ServerDeliver
    \/ ServerDeliverPart
    \/ ServerDeliverRest
    \/ WsSelectMessage
    \/ WsSelectHeartbeat
    \/ WsSendPing

SpecWs == Init /\ [][NextWs]_vars

----------------------------------------------------------------------------
(* The cache: the driver task feeding cache.update one event at a time     *)

\* cache.update(ev) run to its end; a panic of update ends the driver task
CacheUpdate(ev, pick) ==
    /\ ~cache.panicked
    /\ cache' = UpdateOf(cache, ev, pick)
    /\ cacheLast' = [ev |-> ev, tick |-> 1 - cacheLast.tick,
                     readys |-> IF ev.type = "Ready"
                                THEN Min(cacheLast.readys + 1, 2)
                                ELSE cacheLast.readys]
    /\ UNCHANGED <<now, last, bucketVars, script, httpVars, wsVars, fetches, flights,
                   driver, replica>>

\* ServerMessage::Ready
Ready(users, servers, channels, members, emojis) ==
    [type |-> "Ready", users |-> users, servers |-> servers,
     channels |-> channels, members |-> members, emojis |-> emojis]

\* the Ready of a session of u1 that shares server s1 with u2
ReadySmall ==
    Ready({NewUser("u1", "User"), NewUser("u2", "None")},
          {NewServer("s1", {"c1"}, {})},
          {NewChannel("TextChannel", "c1", "s1", {})},
          {NewMember("s1", "u1", {}), NewMember("s1", "u2", {})},
          {})
\* the same session with one channel of each variant
ReadyVariants ==
    Ready({NewUser("u1", "User"), NewUser("u2", "None")},
          {NewServer("s1", {"c1", "v1"}, {})},
          {NewChannel("TextChannel", "c1", "s1", {}),
           NewChannel("VoiceChannel", "v1", "s1", {}),
           NewChannel("DirectMessage", "d1", NoId, {"u1", "u2"}),
           NewChannel("Group", "g1", NoId, {"u1", "u2"}),
           NewChannel("SavedMessages", "n1", NoId, {})},
          {NewMember("s1", "u1", {}), NewMember("s1", "u2", {})},
          {})
MessageHi ==
    [type |-> "Message",
     message |-> [id |-> "m1", channel |-> "c1", author |-> "u2", content |-> "hi"]]
MessageEvents ==
    {ReadySmall, ReadyVariants, MessageHi}
    \cup {[type |-> "Message",
           message |-> [id |-> m, channel |-> ch, author |-> "u2", content |-> "yo"]] :
            m \in MessageIds, ch \in {"c1", "v1", "d1", "g1", "n1", "c9"}}

SpecMessages ==
    Init /\ [][\E ev \in MessageEvents, pick \in MessageIds : CacheUpdate(ev, pick)]_vars

\* the events about servers, their channels and their emojis.  ReadyTwo is
\* a session of u1 in the servers s1 and s2, with the emojis e1 of s1, e2 of
\* s2 and the detached e3; it lists no member of s2
ServerEvents ==
    LET ReadyTwo ==
        Ready({NewUser("u1", "User"), NewUser("u2", "None")},
              {NewServer("s1", {"c1"}, {}), NewServer("s2", {"c3"}, {})},
              {NewChannel("TextChannel", "c1", "s1", {}),
               NewChannel("VoiceChannel", "c3", "s2", {})},
              {NewMember("s1", "u1", {}), NewMember("s1", "u2", {})},
              {[id |-> "e1", parent |-> "s1"], [id |-> "e2", parent |-> "s2"],
               [id |-> "e3", parent |-> NoId]})
    IN
    {ReadySmall, ReadyTwo}
    \cup {[type |-> "ServerCreate", id |-> "s2",
           server |-> NewServer("s2", {"c3"}, {}),
           channels |-> {NewChannel("VoiceChannel", "c3", "s2", {})},
           emojis |-> {[id |-> "e2", parent |-> "s2"]}]}
    \cup {[type |-> "ChannelCreate", channel |-> NewChannel("TextChannel", "c2", s, {})] :
            s \in ServerIds}
    \cup {[type |-> "EmojiCreate", emoji |-> [id |-> "e4", parent |-> s]] :
            s \in ServerIds}
    \cup {[type |-> "ServerDelete", id |-> s] : s \in ServerIds}
    \cup {[type |-> "ServerMemberLeave", id |-> s, user_id |-> u] :
            s \in ServerIds, u \in {"u1", "u2"}}

\* the server sends ChannelCreate and EmojiCreate for the servers of the
\* session only
SpecServers ==
    Init /\ [][\E ev \in ServerEvents, pick \in UserIds :
                /\ ev.type = "ChannelCreate" =>
                      ev.channel.server_id \in DOMAIN cache.servers
                /\ ev.type = "EmojiCreate" =>
                      ev.emoji.parent \in DOMAIN cache.servers
                /\ CacheUpdate(ev, pick)]_vars

\* InnerCache::ensure_members up to the request: it goes on to fetch when the
\* server has a table and the table is Partial
EnsureMembers(h, s) ==
    /\ fetches[h].pc = "idle"
    /\ s \in DOMAIN cache.members
    /\ ~cache.members[s].full
    /\ fetches' = [fetches EXCEPT ![h] = [pc |-> "fetching", server |-> s]]
    /\ UNCHANGED <<now, last, bucketVars, script, httpVars, wsVars, cache, cacheLast,
                   flights, driver, replica>>

\* the response of http.fetch_members: an error, or the members of the server
\* with their users.  make_full is unreachable!() on a table that another
\* call promoted meanwhile: the task panics
EnsureMembersDone(h, ok, members, pick) ==
    LET s == fetches[h].server
        users == {<<m.user, NewUser(m.user, IF m.user = cache.user_id
                                            THEN "User" ELSE "None")>> : m \in members}
        promoted == IF s \in DOMAIN cache.members
                    THEN [cache EXCEPT !.members[s] =
                            [full |-> TRUE,
                             of |-> [u \in {m.user : m \in members} |->
                                        CHOOSE m \in members : m.user = u]]]
                    ELSE cache
    IN  /\ fetches[h].pc = "fetching"
        /\ IF ~ok
           THEN /\ fetches' = [fetches EXCEPT ![h] = [pc |-> "idle", server |-> NoId]]
                /\ UNCHANGED cache
           ELSE IF s \in DOMAIN cache.members /\ cache.members[s].full
           THEN /\ fetches' = [fetches EXCEPT ![h] = [pc |-> "panicked", server |-> s]]
                /\ UNCHANGED cache
           ELSE /\ fetches' = [fetches EXCEPT ![h] = [pc |-> "idle", server |-> NoId]]
                /\ cache' = [promoted EXCEPT
                               !.users = PutAll(@, users, MaxUsers, pick)]
        /\ UNCHANGED <<now, last, bucketVars, script, httpVars, wsVars, cacheLast,
                       flights, driver, replica>>

\* the events about members and roles; the Ready is a session of u1 in s1
\* and s2 whose members hold roles
MemberEvents ==
    LET ReadyRoles ==
        Ready({NewUser("u1", "User"), NewUser("u2", "None")},
              {NewServer("s1", {}, {"r1", "r2"}), NewServer("s2", {}, {"r1"})},
              {},
              {NewMember("s1", "u1", {"r1"}), NewMember("s1", "u2", {"r1", "r2"}),
               NewMember("s2", "u1", {"r1"})},
              {})
    IN
    {ReadyRoles}
    \cup {[type |-> "ServerRoleDelete", id |-> s, role_id |-> r] :
            s \in ServerIds, r \in {"r1", "r2"}}
    \cup {[type |-> "ServerMemberJoin", id |-> "s1", user_id |-> "u3"],
          [type |-> "ServerMemberLeave", id |-> "s1", user_id |-> "u2"]}
\* the driver and two handler tasks; GET /servers/s/members answers one of
\* two member lists
SpecMembers ==
    Init /\ [][
        \/ \E ev \in MemberEvents, pick \in UserIds : CacheUpdate(ev, pick)
        \/ \E h \in Handlers, s \in ServerIds : EnsureMembers(h, s)
        \/ \E h \in Handlers, ok \in BOOLEAN, pick \in UserIds :
              \E members \in
                    {{NewMember(fetches[h].server, "u1", {"r1"})},
                     {NewMember(fetches[h].server, "u1", {"r2"}),
                      NewMember(fetches[h].server, "u2", {"r1", "r2"}),
                      NewMember(fetches[h].server, "u3", {})}} :
                  EnsureMembersDone(h, ok, members, pick)
        ]_vars

\* the events about channels for a session of u1, whose DirectMessage d1 is
\* with u2 and d2 with u3: the server keeps one DirectMessage per pair of users
ChannelEvents ==
    LET dms == {NewChannel("DirectMessage", "d1", NoId, {"u1", "u2"}),
                NewChannel("DirectMessage", "d2", NoId, {"u1", "u3"})}
        others == {NewChannel("Group", "g1", NoId, {"u1", "u2"}),
                   NewChannel("TextChannel", "c1", "s1", {})}
    IN  {ReadyVariants,
         Ready({NewUser("u1", "User")}, {}, dms, {}, {})}
        \cup {[type |-> "ChannelCreate", channel |-> ch] : ch \in dms \cup others}
        \cup {[type |-> "ChannelUpdate", id |-> id,
               data |-> [description |-> d, last_message_id |-> m], clear |-> cl] :
                id \in {"d1", "g1"}, d \in {NoId, "d1"}, m \in {NoId, "m1"},
                cl \in {{}, {"Description"}}}
        \cup {[type |-> "ChannelDelete", id |-> id] : id \in {"d1", "d2", "g1", "c9"}}

SpecChannels ==
    Init /\ [][\E ev \in ChannelEvents, pick \in UserIds : CacheUpdate(ev, pick)]_vars

\* the events about users.  ReadySmall makes u1 the session user; the other
\* Ready is what a later login as u2 on the same cache would bring
UserEvents ==
    {ReadySmall,
     Ready({NewUser("u1", "None"), NewUser("u2", "User")}, {}, {}, {}, {})}
    \cup {[type |-> "UserUpdate", id |-> id, data |-> [display_name |-> n],
           clear |-> cl] :
            id \in {"u1", "u2"}, n \in {NoId, "n1"},
            cl \in {{}, {"StatusText"}, {"DisplayName"}}}
    \cup {[type |-> "UserPlatformWipe", user_id |-> id] : id \in {"u1", "u2"}}
    \cup {[type |-> "UserRelationship", id |-> "u3", user |-> NewUser("u3", "Friend")]}

SpecUsers ==
    Init /\ [][\E ev \in UserEvents, pick \in UserIds : CacheUpdate(ev, pick)]_vars

----------------------------------------------------------------------------
(* examples/basic.rs: the driver loop and the handler tasks it spawns; the *)
(* fetch-through calls of volty-ws/src/cache.rs the handlers make          *)

\* try_get_with(key, init) on a moka cache: a hit returns at once; on a miss
\* the caller waits for the load in flight for the key, or starts one and
\* issues the HTTP fetch
TryGetAlone(i, key, table) ==
    IF key.user \in DOMAIN table
    THEN [flights EXCEPT !.call[i] = [pc |-> "run", key |-> key,
                                      res |-> [ok |-> TRUE, value |-> table[key.user]]]]
    ELSE [flights EXCEPT !.call[i] = [pc |-> "leader", key |-> key, res |-> NoCall.res],
                         !.sent[key] = Min(@ + 1, 2)]
TryGetWith(i, key, table) ==
    IF key.user \in DOMAIN table
    THEN [flights EXCEPT !.call[i] = [pc |-> "run", key |-> key,
                                      res |-> [ok |-> TRUE, value |-> table[key.user]]]]
    ELSE IF \E j \in 1..MaxEvents :
                flights.call[j].pc \in {"leader", "waiter"} /\ flights.call[j].key = key
    THEN [flights EXCEPT !.call[i] = [pc |-> "waiter", key |-> key, res |-> NoCall.res]]
    ELSE [flights EXCEPT !.call[i] = [pc |-> "leader", key |-> key, res |-> NoCall.res],
                         !.sent[key] = Min(@ + 1, 2)]

\* the driver is inside update, in an arm that takes members.write(), and
\* waits in the queue of the lock behind a fetch_member, which keeps its read
\* guard until it returns; the lock is fair, so later readers queue behind
\* the driver
WriterQueued ==
    LET ev == driver.pulled[Len(driver.pulled)]
    IN  /\ driver.pc = "update"
        /\ \/ ev.type \in {"Ready", "ServerCreate", "ServerDelete"}
           \/ /\ ev.type = "ServerMemberLeave"
              /\ ev.user_id = cache.user_id
              /\ ev.id \in DOMAIN cache.servers
        /\ \E i \in 1..MaxEvents :
              /\ flights.call[i].pc \in {"leader", "waiter"}
              /\ flights.call[i].key.server # NoId

\* let event = ws.next().await
DriverNextSpawns(ev) ==
    /\ driver.pc = "next"
    /\ Len(driver.pulled) < MaxEvents
    /\ driver' = [driver EXCEPT !.pc = "update", !.pulled = Append(@, ev)]
    /\ flights' = [flights EXCEPT !.call[Len(driver.pulled) + 1].pc = "run"]
    /\ UNCHANGED <<now, last, bucketVars, script, httpVars, wsVars, cache, cacheLast,
                   fetches, replica>>
DriverNext(ev) ==
    /\ driver.pc = "next"
    /\ Len(driver.pulled) < MaxEvents
    /\ driver' = [driver EXCEPT !.pc = "update", !.pulled = Append(@, ev)]
    /\ UNCHANGED <<now, last, bucketVars, script, httpVars, wsVars, cache, cacheLast,
                   fetches, flights, replica>>

\* cache.update(event.clone()).await, once the guards it awaits are granted
DriverUpdate(pick) ==
    LET ev == driver.pulled[Len(driver.pulled)]
    IN  /\ driver.pc = "update"
        /\ ~WriterQueued
        /\ cache' = UpdateOf(cache, ev, pick)
        /\ cacheLast' = [ev |-> ev, tick |-> 1 - cacheLast.tick,
                         readys |-> IF ev.type = "Ready"
                                    THEN Min(cacheLast.readys + 1, 2)
                                    ELSE cacheLast.readys]
        /\ driver' = [driver EXCEPT !.pc = "spawn", !.applied = @ + 1]
        /\ UNCHANGED <<now, last, bucketVars, script, httpVars, wsVars, fetches,
                       flights, replica>>

\* tokio::spawn(async move { h.on_event(event).await })
DriverSpawn ==
    /\ driver.pc = "spawn"
    /\ driver' = [driver EXCEPT !.pc = "next", !.spawned = @ + 1]
    /\ flights' = [flights EXCEPT !.call[driver.spawned + 1].pc = "run"]
    /\ UNCHANGED <<now, last, bucketVars, script, httpVars, wsVars, cache, cacheLast,
                   fetches, replica>>

\* a handler awaits a sleep, a gateway send or an HTTP call
HandlerAwait(i) ==
    /\ flights.call[i].pc = "run"
    /\ flights' = [flights EXCEPT !.call[i] = [NoCall EXCEPT !.pc = "await"]]
    /\ UNCHANGED <<now, last, bucketVars, script, httpVars, wsVars, cache, cacheLast,
                   fetches, driver, replica>>

\* what the handler awaited completes, and on_event returns
HandlerExit(i) ==
    /\ flights.call[i].pc \in {"run", "await"}
    /\ flights' = [flights EXCEPT !.call[i].pc = "done"]
    /\ UNCHANGED <<now, last, bucketVars, script, httpVars, wsVars, cache, cacheLast,
                   fetches, driver, replica>>

\* InnerCache::fetch_member(http, s, u), up to its return or to the await of
\* the load
FetchMember(i, s, u) ==
    LET NotFound == [ok |-> FALSE, value |-> "NotFound"]
        done(res) == [flights EXCEPT !.call[i] =
                        [pc |-> "run", key |-> [server |-> s, user |-> u], res |-> res]]
    IN  /\ flights.call[i].pc = "run"
        /\ ~WriterQueued
        /\ flights' =
             IF s \notin DOMAIN cache.members THEN done(NotFound)
             ELSE IF cache.members[s].full
             THEN IF u \in DOMAIN cache.members[s].of
                  THEN done([ok |-> TRUE, value |-> cache.members[s].of[u]])
                  ELSE done(NotFound)
             ELSE TryGetWith(i, [server |-> s, user |-> u], cache.members[s].of)
        /\ UNCHANGED <<now, last, bucketVars, script, httpVars, wsVars, cache, cacheLast,
                       fetches, driver, replica>>

\* InnerCache::fetch_user(http, u)
FetchUser(i, u) ==
    /\ flights.call[i].pc = "run"
    /\ flights' = TryGetWith(i, [server |-> NoId, user |-> u], cache.users)
    /\ UNCHANGED <<now, last, bucketVars, script, httpVars, wsVars, cache, cacheLast,
                   fetches, driver, replica>>

\* the HTTP fetch of the load in flight for key answers res: the value is
\* inserted on Ok, and the leader and the waiters all return res
FetchDone(key, res, pick) ==
    LET s == key.server
    IN  /\ \E i \in 1..MaxEvents : flights.call[i].pc = "leader" /\ flights.call[i].key = key
        /\ flights' = [call |-> [i \in 1..MaxEvents |->
                                   IF flights.call[i].pc \in {"leader", "waiter"}
                                      /\ flights.call[i].key = key
                                   THEN [pc |-> "run", key |-> key, res |-> res]
                                   ELSE flights.call[i]],
                       sent |-> [flights.sent EXCEPT ![key] = 0]]
        /\ cache' = IF ~res.ok THEN cache
                    ELSE IF s = NoId
                    THEN [cache EXCEPT !.users = LruPut(@, key.user, res.value, MaxUsers, pick)]
                    ELSE [cache EXCEPT !.members[s].of =
                            LruPut(@, key.user, res.value, MaxMembers, pick)]
        /\ UNCHANGED <<now, last, bucketVars, script, httpVars, wsVars, cacheLast,
                       fetches, driver, replica>>

\* the events next() returns are the Ready of a session of u1 in s1, whose
\* other members are not sent, the server going away and u2 leaving it; GET
\* /servers/s1/members/u2 and GET /users/u2 answer an error or one of two
\* values
SpecDriver ==
    Init /\ [][
        \/ \E ev \in {Ready({NewUser("u1", "User")}, {NewServer("s1", {}, {})}, {},
                             {NewMember("s1", "u1", {})}, {}),
                       [type |-> "ServerDelete", id |-> "s1"],
                       [type |-> "ServerMemberLeave", id |-> "s1", user_id |-> "u2"]} :
              DriverNext(ev)
        \/ \E pick \in UserIds : DriverUpdate(pick)
        \/ DriverSpawn
        \/ \E i \in 1..MaxEvents : HandlerAwait(i)
        \/ \E i \in 1..MaxEvents : HandlerExit(i)
        \/ \E i \in 1..MaxEvents, k \in FetchKeys :
              k.server # NoId /\ FetchMember(i, k.server, k.user)
        \/ \E i \in 1..MaxEvents, k \in FetchKeys :
              k.server = NoId /\ FetchUser(i, k.user)
        \/ \E k \in FetchKeys, pick \in UserIds :
              \E res \in {[ok |-> FALSE, value |-> "Reqwest"]}
                    \cup (IF k.server = NoId
                          THEN {[ok |-> TRUE, value |-> NewUser(k.user, r)] :
                                  r \in {"None", "Friend"}}
                          ELSE {[ok |-> TRUE, value |-> NewMember(k.server, k.user, rs)] :
                                  rs \in {{}, {"r1"}}}) :
                  FetchDone(k, res, pick)
        ]_vars

----------------------------------------------------------------------------
(* Two fresh caches that are fed the same events, the second one later *)

\* cache.update(ev) on the first cache
ReplayFirst(ev, pick) ==
    /\ replica.pending = <<>>
    /\ ~cache.panicked
    /\ cache' = UpdateOf(cache, ev, pick)
    /\ cacheLast' = [ev |-> ev, tick |-> 1 - cacheLast.tick,
                     readys |-> IF ev.type = "Ready"
                                THEN Min(cacheLast.readys + 1, 2)
                                ELSE cacheLast.readys]
    /\ replica' = [replica EXCEPT !.pending = <<ev, pick>>]
    /\ UNCHANGED <<now, last, bucketVars, script, httpVars, wsVars, fetches, flights,
                   driver>>

\* cache.update of the same event on the second cache
ReplaySecond ==
    /\ replica.pending # <<>>
    /\ replica' = [cache |-> UpdateOf(replica.cache, replica.pending[1],
                                      replica.pending[2]),
                   pending |-> <<>>]
    /\ UNCHANGED <<now, last, bucketVars, script, httpVars, wsVars, cache, cacheLast,
                   fetches, flights, driver>>

\* the events of a session of u1 in s1: members join and leave, a server is
\* created; every table stays within its capacity; the clock moves once
SpecReplay ==
    Init /\ [][
        \/ \E ev \in {Ready({NewUser("u1", "User")}, {NewServer("s1", {}, {})}, {},
                             {NewMember("s1", "u1", {})}, {}),
                       [type |-> "ServerMemberJoin", id |-> "s1", user_id |-> "u2"],
                       [type |-> "ServerMemberLeave", id |-> "s1", user_id |-> "u2"],
                       [type |-> "ServerCreate", id |-> "s2",
                        server |-> NewServer("s2", {}, {}), channels |-> {},
                        emojis |-> {}]} :
              ReplayFirst(ev, "u1")
        \/ ReplaySecond
        \/ now = 0 /\ Tick
        ]_vars

----------------------------------------------------------------------------
(* volty-http/src/routes/channels: message_bulk_delete.rs, message_send.rs *)

SevenDays == 604800000
MaxBulk == 100
MaxContent == 2000

\* ids.retain(..): an id is [valid, ts], valid when Ulid::from_string accepts
\* it and ts its datetime(), in ms on the axis of now; t is SystemTime::now()
RetainValid(ids, t) ==
    LET keep(i) == i.valid
    IN  SelectSeq(ids, keep)
RetainRecent(ids, t) ==
    LET keep(i) == i.valid /\ i.ts > t - SevenDays
    IN  SelectSeq(ids, keep)

\* Http::delete_messages up to send_request
HttpDeleteMessages(t, ids) ==
    LET body == RetainRecent(ids, now)
        r == RequestOf(buckets, "DELETE", <<"channels", "x", "messages", "bulk">>, now)
    IN  /\ tasks[t].st = "idle"
        /\ IF Len(body) < 1 \/ Len(body) > MaxBulk
           THEN /\ last' = [op |-> "delete_messages", task |-> t, ids |-> ids,
                            body |-> body, res |-> ApiError("FailedValidation", 0)]
                /\ UNCHANGED <<buckets, tasks>>
           ELSE /\ buckets' = r.buckets
                /\ tasks' = IF r.res.ok
                            THEN [tasks EXCEPT ![t] = [st |-> "built",
                                                       name |-> "delete_messages",
                                                       key |-> r.key, took |-> TRUE,
                                                       body |-> body]]
                            ELSE tasks
                /\ last' = [op |-> "delete_messages", task |-> t, ids |-> ids,
                            body |-> body, res |-> r.res]
        /\ UNCHANGED <<now, hist, seen, script, wire, wsVars, cacheVars>>

\* Http::send_message up to send_request, for a message that has only its
\* content: content is the length of the text, or -1 for None
HttpSendMessage(t, content) ==
    LET r == RequestOf(buckets, "POST", <<"channels", "x", "messages">>, now)
    IN  /\ tasks[t].st = "idle"
        /\ IF content # -1 /\ (content < 0 \/ content > MaxContent)
           THEN /\ last' = [op |-> "send_message", task |-> t, content |-> content,
                            res |-> ApiError("FailedValidation", 0)]
                /\ UNCHANGED <<buckets, tasks>>
           ELSE /\ buckets' = r.buckets
                /\ tasks' = IF r.res.ok
                            THEN [tasks EXCEPT ![t] = [st |-> "built",
                                                       name |-> "send_message",
                                                       key |-> r.key, took |-> TRUE,
                                                       body |-> content]]
                            ELSE tasks
                /\ last' = [op |-> "send_message", task |-> t, content |-> content,
                            res |-> r.res]
        /\ UNCHANGED <<now, hist, seen, script, wire, wsVars, cacheVars>>

\* the id lists are at most one id of any kind, valid or not, younger than
\* seven days, exactly that old or older, followed by a run of recent ids; a
\* run keeps to one of the two routes; the responses carry no rate-limit
\* headers, and the clock moves once
SpecRoutes ==
    Init /\ [][
        \/ \E t \in Tasks, n \in {0, MaxBulk - 1, MaxBulk, MaxBulk + 1} :
              \E head \in UNION {[1..k -> [valid : BOOLEAN,
                                           ts : {now - SevenDays - 1, now - SevenDays,
                                                 now - SevenDays + 1}]] : k \in 0..1} :
                  /\ Alone(Key("Channels", "x"))
                  /\ HttpDeleteMessages(t, head \o [i \in 1..n |-> [valid |-> TRUE, ts |-> now]])
        \/ \E t \in Tasks, content \in {-1, 0, 1, MaxContent, MaxContent + 1} :
              Alone(Key("Messaging", "x")) /\ HttpSendMessage(t, content)
        \/ \E t \in Tasks : HttpSend(t)
        \/ \E t \in Tasks, resp \in {r \in Responses : r.headers.limit = NoHeader
                                                       /\ r.body \in {"T", "unreadable"}} :
              HttpRespond(t, resp)
        \/ now = 0 /\ Tick
        ]_vars

----------------------------------------------------------------------------
(* volty-types/src/permissions/mod.rs.  A permission value is the set of   *)
(* its bits; an override is [allow, deny].  The bit "other" is outside     *)
(* GrantAllSafe.                                                           *)

GrantAllSafe == {"view", "send", "manage"}
AllowInTimeout == {"view"}

\* roles.sort_by(rank, reversed) and the loop of PermissionValue::apply over
\* it: roles is a set of [id, rank, allow, deny]; the sort is stable, so roles
\* of equal rank stay in the order the hash table iterated them, which is
\* the caller's choice "first"
RECURSIVE ApplyAscending(_, _, _)
ApplyAscending(value, roles, first) ==
    IF roles = {} THEN value
    ELSE LET low == {r \in roles : \A q \in roles : r.rank <= q.rank}
             r == IF \E x \in low : x.id = first
                  THEN CHOOSE x \in low : x.id = first
                  ELSE CHOOSE x \in low : TRUE
         IN  ApplyAscending((value \cup r.allow) \ r.deny, roles \ {r}, first)
RECURSIVE ApplyRoles(_, _, _)
ApplyRoles(value, roles, first) ==
    IF roles = {} THEN value
    ELSE LET top == {r \in roles : \A q \in roles : r.rank >= q.rank}
             r == IF \E x \in top : x.id = first
                  THEN CHOOSE x \in top : x.id = first
                  ELSE CHOOSE x \in top : TRUE
         IN  ApplyRoles((value \cup r.allow) \ r.deny, roles \ {r}, first)

\* calculate_server_permissions at time t: server is [id, owner,
\* default_permissions, roles], roles a function from role ids to [rank,
\* allow, deny]; member is [server, user, roles, timeout], timeout -1 for
\* None
CalcServerPermissions(server, member, first, t) ==
    LET held == {[id |-> id, rank |-> server.roles[id].rank,
                  allow |-> server.roles[id].allow, deny |-> server.roles[id].deny] :
                    id \in member.roles \cap DOMAIN server.roles}
        value == ApplyRoles(server.default_permissions, held, first)
    IN  IF member.server # server.id THEN {}
        ELSE IF member.user = server.owner THEN GrantAllSafe
        ELSE IF member.timeout # -1 /\ member.timeout > t
        THEN value \cap AllowInTimeout
        ELSE value

\* calculate_server_channel_permissions: default is a set holding the
\* channel's default override, or nothing for None; role_permissions is a
\* function from role ids to overrides
ChannelIgnoresOwner(server, default, role_permissions, member, first, t) ==
    LET held == {[id |-> id, rank |-> server.roles[id].rank,
                  allow |-> role_permissions[id].allow,
                  deny |-> role_permissions[id].deny] :
                    id \in (DOMAIN role_permissions) \cap member.roles
                            \cap DOMAIN server.roles}
        v0 == CalcServerPermissions(server, member, first, t)
        v1 == IF default = {} THEN v0
              ELSE LET o == CHOOSE x \in default : TRUE IN (v0 \cup o.allow) \ o.deny
        value == ApplyRoles(v1, held, first)
    IN  IF member.server # server.id THEN {}
        ELSE IF member.timeout # -1 /\ member.timeout > t
        THEN value \cap AllowInTimeout
        ELSE value
CalcServerChannelPermissions(server, default, role_permissions, member, first, t) ==
    LET held == {[id |-> id, rank |-> server.roles[id].rank,
                  allow |-> role_permissions[id].allow,
                  deny |-> role_permissions[id].deny] :
                    id \in (DOMAIN role_permissions) \cap member.roles
                            \cap DOMAIN server.roles}
        v0 == CalcServerPermissions(server, member, first, t)
        v1 == IF default = {} THEN v0
              ELSE LET o == CHOOSE x \in default : TRUE IN (v0 \cup o.allow) \ o.deny
        value == ApplyRoles(v1, held, first)
    IN  IF member.server # server.id THEN {}
        ELSE IF member.user = server.owner THEN GrantAllSafe
        ELSE IF member.timeout # -1 /\ member.timeout > t
        THEN value \cap AllowInTimeout
        ELSE value

\* a caller holds a server, the overrides of its channel c1 and a member
PermissionsInput(server, default, role_permissions, member) ==
    /\ last.op = "init"
    /\ last' = [op |-> "input", server |-> server, default |-> default,
                role_permissions |-> role_permissions, member |-> member]
    /\ UNCHANGED <<now, bucketVars, script, httpVars, wsVars, cacheVars>>

\* the two calculations for the member and the channel
CalcPermissions(first) ==
    /\ last.op = "input"
    /\ last' = [op |-> "permissions", server |-> last.server, default |-> last.default,
                role_permissions |-> last.role_permissions, member |-> last.member,
                of_server |-> CalcServerPermissions(last.server, last.member, first, now),
                of_channel |-> CalcServerChannelPermissions(last.server, last.default,
                                    last.role_permissions, last.member, first, now)]
    /\ UNCHANGED <<now, bucketVars, script, httpVars, wsVars, cacheVars>>

\* the server s1 with the roles r1 and r2, owned by u1 or by u2; the member
\* is u1, of s1 or of s2, holding some of r1, r2 and a role r3 that s1 does
\* not have, with no timeout, one that has passed or one that has not
SpecPermissions ==
    Init /\ [][
        \/ \E owner \in {"u1", "u2"}, of \in ServerIds, timeout \in {-1, now, now + 1},
              held \in {{}, {"r1"}, {"r1", "r2"}, {"r2", "r3"}},
              ranks \in {<<1, 2>>, <<2, 1>>, <<1, 1>>},
              default_permissions \in {{"view", "send"}, {"manage", "other"}} :
             \E o1, o2 \in {[allow |-> {}, deny |-> {}],
                            [allow |-> {"send", "manage"}, deny |-> {"view"}],
                            [allow |-> {"view", "other"}, deny |-> {"view", "send"}]},
                default \in {{}, {[allow |-> {"other"}, deny |-> {"manage"}]}},
                role_permissions \in
                   {Empty, [r \in {"r1"} |-> [allow |-> {"manage"}, deny |-> {"send"}]]} :
               PermissionsInput([id |-> "s1", owner |-> owner,
                                 default_permissions |-> default_permissions,
                                 roles |-> [r \in {"r1", "r2"} |->
                                              IF r = "r1"
                                              THEN [rank |-> ranks[1], allow |-> o1.allow,
                                                    deny |-> o1.deny]
                                              ELSE [rank |-> ranks[2], allow |-> o2.allow,
                                                    deny |-> o2.deny]]],
                                default, role_permissions,
                                [server |-> of, user |-> "u1", roles |-> held,
                                 timeout |-> timeout])
        \/ \E first \in {"r1", "r2"} : CalcPermissions(first)
        ]_vars

----------------------------------------------------------------------------
(* take, observe and the clock on one key, with a note of the latest       *)
(* refusal: script.step is 1 from a refused take until an observe, with    *)
(* script.end the instant the refusal's duration runs out, and 2 once a    *)
(* take at or after that instant was granted                               *)
SpecRetry ==
    Init /\ [][
        \/ \E k \in SmallKeys :
              /\ Alone(k)
              /\ Take(k)
              /\ script' = IF ~TakeOf(buckets, k, now).res.ok
                           THEN [NoScript EXCEPT !.step = 1,
                                    !.end = now + TakeOf(buckets, k, now).res.retry]
                           ELSE IF script.step = 1 /\ now >= script.end
                           THEN [script EXCEPT !.step = 2]
                           ELSE NoScript
              /\ UNCHANGED hist
        \/ \E k \in SmallKeys, h \in Headers :
              Alone(k) /\ Observe(k, h) /\ script' = NoScript
        \/ Tick
        ]_vars


\* every Ready of the event sets above and one whose users and members of s1
\* are three, at any place in a stream of the events that add entities to
\* the tables
SpecSnapshots ==
    Init /\ [][\E ev \in {e \in ServerEvents \cup ChannelEvents \cup MemberEvents
                                    \cup UserEvents :
                              e.type \in {"Ready", "ServerCreate", "EmojiCreate",
                                          "ServerMemberJoin", "UserRelationship"}}
                          \cup {Ready({NewUser("u1", "User"), NewUser("u2", "None"),
                                       NewUser("u3", "None")},
                                      {NewServer("s1", {}, {})}, {},
                                      {NewMember("s1", u, {}) : u \in UserIds}, {})},
                  pick \in UserIds : CacheUpdate(ev, pick)]_vars

\* one Ready, then ensure_members(s1) calls that all read the Partial table
\* before any member event; the member events of s1 are applied while a GET
\* /servers/s1/members is in flight, and the GET answers an error or the
\* members s1 had when the request reached the server, i.e. those of the Ready
SpecPromotion ==
    Init /\ [][
        \/ \E ev \in {e \in MemberEvents : e.type = "Ready"}, pick \in UserIds :
              cacheLast.readys = 0 /\ CacheUpdate(ev, pick)
        \/ \E h \in Handlers :
              cacheLast.ev.type = "Ready" /\ EnsureMembers(h, "s1")
        \/ \E ev \in {e \in MemberEvents : e.type # "Ready" /\ e.id = "s1"},
              pick \in UserIds :
              /\ \E h \in Handlers : fetches[h].pc = "fetching"
              /\ CacheUpdate(ev, pick)
        \/ \E h \in Handlers, ok \in BOOLEAN, pick \in UserIds :
              EnsureMembersDone(h, ok, {NewMember("s1", "u1", {"r1"}),
                                        NewMember("s1", "u2", {"r1", "r2"})}, pick)
        ]_vars

----------------------------------------------------------------------------
(* fetch_dm beside the ChannelDelete arm of update, guard by guard.  Both   *)
(* hold the guard of their `if let` scrutinee for the whole block: fetch_dm *)
(* the user_dms read guard while get_channel takes channels.read(), the     *)
(* ChannelDelete arm the channels write guard while it takes                *)
(* user_dms.write().  A tokio RwLock gives no new read guard while a writer *)
(* holds it or waits for it.                                                *)

\* fetch_dm, first half: user_dms.read() and the lookup; without an entry the
\* call goes on to http.open_dm
FetchDm(h, u) ==
    /\ fetches[h].pc = "idle"
    /\ driver.pc # "delete_dm"
    /\ u \in DOMAIN cache.user_dms
    /\ fetches' = [fetches EXCEPT ![h] = [pc |-> "get_channel",
                                          channel_id |-> cache.user_dms[u]]]
    /\ UNCHANGED <<now, last, bucketVars, script, httpVars, wsVars, cache, cacheLast,
                   flights, driver, replica>>

\* fetch_dm, second half: get_channel takes channels.read(), the unwrap of
\* its answer, and the release of both guards
FetchDmChannel(h) ==
    /\ fetches[h].pc = "get_channel"
    /\ driver.pc # "delete_dm"
    /\ fetches' = [fetches EXCEPT ![h] =
                      IF fetches[h].channel_id \in DOMAIN cache.channels
                      THEN [pc |-> "idle", server |-> NoId]
                      ELSE [pc |-> "panicked", server |-> NoId]]
    /\ UNCHANGED <<now, last, bucketVars, script, httpVars, wsVars, cache, cacheLast,
                   flights, driver, replica>>

\* the ChannelDelete arm, first half: channels.write() and the remove; for a
\* DirectMessage the arm goes on with the write guard held
DeleteChannel ==
    LET ev == driver.pulled[Len(driver.pulled)]
        dm == /\ ev.id \in DOMAIN cache.channels
              /\ cache.channels[ev.id].channel_type = "DirectMessage"
    IN  /\ driver.pc = "update"
        /\ ev.type = "ChannelDelete"
        /\ cache' = [cache EXCEPT !.channels = Del(@, ev.id)]
        /\ driver' = IF dm
                     THEN [pc |-> "delete_dm", pulled |-> driver.pulled,
                           applied |-> driver.applied, spawned |-> driver.spawned,
                           recipients |-> cache.channels[ev.id].recipients]
                     ELSE [driver EXCEPT !.pc = "spawn", !.applied = @ + 1]
        /\ cacheLast' = IF dm THEN cacheLast
                        ELSE [cacheLast EXCEPT !.ev = ev, !.tick = 1 - @]
        /\ UNCHANGED <<now, last, bucketVars, script, httpVars, wsVars, fetches,
                       flights, replica>>

\* the ChannelDelete arm, second half: user_dms.write(), granted when no read
\* guard is out, the remove of the other recipient's entry, and the release of
\* both guards
DeleteDm ==
    LET ev == driver.pulled[Len(driver.pulled)]
        other == OtherOf([recipients |-> driver.recipients], cache.user_id)
    IN  /\ driver.pc = "delete_dm"
        /\ \A h \in Handlers : fetches[h].pc # "get_channel"
        /\ cache' = IF other = NoId THEN [cache EXCEPT !.panicked = TRUE]
                    ELSE [cache EXCEPT !.user_dms = Del(@, other)]
        /\ driver' = [pc |-> "spawn", pulled |-> driver.pulled,
                      applied |-> driver.applied + 1, spawned |-> driver.spawned]
        /\ cacheLast' = [cacheLast EXCEPT !.ev = ev, !.tick = 1 - @]
        /\ UNCHANGED <<now, last, bucketVars, script, httpVars, wsVars, fetches,
                       flights, replica>>

\* the driver applies a Ready with DirectMessage channels and then a
\* ChannelDelete while two handlers call fetch_dm
SpecDm ==
    Init /\ [][
        \/ \E ev \in {e \in ChannelEvents : e.type \in {"Ready", "ChannelDelete"}} :
              /\ (ev.type = "Ready") = (driver.pulled = <<>>)
              /\ DriverNext(ev)
        \/ \E pick \in UserIds :
              /\ driver.pulled # <<>>
              /\ driver.pulled[Len(driver.pulled)].type = "Ready"
              /\ DriverUpdate(pick)
        \/ DeleteChannel
        \/ DeleteDm
        \/ DriverSpawn
        \/ \E h \in Handlers, u \in UserIds : FetchDm(h, u)
        \/ \E h \in Handlers : FetchDmChannel(h)
        ]_vars

----------------------------------------------------------------------------
(* RawHandler::on_event on a Bulk, beside cache.update on the same Bulk.    *)
(* A call of on_event is a handler task of flights.call: todo holds the     *)
(* events its loops have still to match, the one being matched first, log   *)
(* the callbacks it invoked and those that returned.                        *)

\* Bulk events: two elements whose order matters, an empty one, and one that
\* nests a Bulk
BulkEvents ==
    LET Bulk(v) == [type |-> "Bulk", v |-> v]
        Gone == [type |-> "ChannelDelete", id |-> "c1"]
    IN  {Bulk(<<ReadySmall, MessageHi>>),
         Bulk(<<>>),
         Bulk(<<MessageHi, Bulk(<<Gone, ReadySmall>>), MessageHi>>)}

\* h.on_event(event) is called
OnEvent(i, ev) ==
    /\ flights.call[i].pc = "none"
    /\ flights' = [flights EXCEPT !.call[i] =
                      [pc |-> "match", ev |-> ev, todo |-> <<ev>>, log |-> <<>>]]
    /\ UNCHANGED <<now, last, bucketVars, script, httpVars, wsVars, cache, cacheLast,
                   fetches, driver, replica>>

\* the match of on_event on the next event: the Bulk arm loops over v, calling
\* on_event on each element; any other arm invokes the typed callback
OnEventAwaitsNone(i) ==
    LET call == flights.call[i]
        event == Head(call.todo)
    IN  /\ call.pc = "match"
        /\ flights' = [flights EXCEPT !.call[i] =
             IF call.todo = <<>> THEN [call EXCEPT !.pc = "done"]
             ELSE IF event.type = "Bulk"
             THEN [call EXCEPT !.todo = event.v \o Tail(call.todo)]
             ELSE [call EXCEPT !.todo = Tail(call.todo),
                               !.log = Append(@, <<"call", event.type>>)]]
        /\ UNCHANGED <<now, last, bucketVars, script, httpVars, wsVars, cache,
                       cacheLast, fetches, driver, replica>>
OnEventMatch(i) ==
    LET call == flights.call[i]
        event == Head(call.todo)
    IN  /\ call.pc = "match"
        /\ flights' = [flights EXCEPT !.call[i] =
             IF call.todo = <<>> THEN [call EXCEPT !.pc = "done"]
             ELSE IF event.type = "Bulk"
             THEN [call EXCEPT !.todo = event.v \o Tail(call.todo)]
             ELSE [call EXCEPT !.pc = "callback",
                               !.log = Append(@, <<"call", event.type>>)]]
        /\ UNCHANGED <<now, last, bucketVars, script, httpVars, wsVars, cache,
                       cacheLast, fetches, driver, replica>>

\* the callback that on_event awaits returns
CallbackReturn(i) ==
    LET call == flights.call[i]
    IN  /\ call.pc = "callback"
        /\ flights' = [flights EXCEPT !.call[i] =
             [call EXCEPT !.pc = "match", !.todo = Tail(@),
                          !.log = Append(@, <<"return", Head(call.todo).type>>)]]
        /\ UNCHANGED <<now, last, bucketVars, script, httpVars, wsVars, cache,
                       cacheLast, fetches, driver, replica>>

\* the cache is fed the Bulk events and their elements in any order; one
\* handler task runs on_event on a Bulk
SpecBulk ==
    Init /\ [][
        \/ \E ev \in BulkEvents \cup {ReadySmall, MessageHi}, pick \in UserIds :
              CacheUpdate(ev, pick)
        \/ \E ev \in BulkEvents : OnEvent(1, ev)
        \/ OnEventMatch(1)
        \/ CallbackReturn(1)
        ]_vars

----------------------------------------------------------------------------
(* InnerWebSocket lock by lock: one task loops in next(), another calls     *)
(* send() on a clone.  tx, rx and last_message are tokio Mutexes.  A step   *)
(* that takes one guard and gives it back without awaiting another guard    *)
(* (a write on tx, update_last_message) is one action; reconnect, which     *)
(* holds tx while it awaits rx, is one action per guard; next() holds rx    *)
(* from rx.lock() until an arm of the select! drops it.                     *)

\* WebSocket::send(m) is called on a clone of the socket
SessionSendCall(m) ==
    /\ session.task["send"].pc \in {"idle", "done"}
    /\ session' = [session EXCEPT !.task["send"] =
                      [pc |-> "write", m |-> m, ret |-> "write", fresh |-> 0,
                       fails |-> 0, retried |-> FALSE]]
    /\ UNCHANGED <<now, last, bucketVars, script, httpVars, ws, wsHist, cacheVars>>

\* send: self.tx.lock().await.send(item.clone()).await, then
\* update_last_message, then check_error on a failure; the Ping of next() goes
\* through the same send
SessionWriteGivesUp(t, r) ==
    LET task == session.task[t]
        after == [session EXCEPT !.last_message = [by |-> t, at |-> "write"]]
    IN  /\ task.pc = "write"
        /\ session.tx.holder = "none"
        /\ r \in Recoverable => session.conns < MaxConn
        /\ session' =
             IF r = "written"
             THEN [after EXCEPT
                     !.written = [by |-> t, m |-> task.m, conn |-> session.tx.conn],
                     !.task[t].pc = IF t = "send" THEN "done" ELSE "top"]
             ELSE IF CheckError(r) = "reconnect"
             THEN [after EXCEPT !.task[t].pc = IF t = "send" THEN "done" ELSE "top"]
             ELSE [after EXCEPT !.task[t].pc = "panicked"]
        /\ UNCHANGED <<now, last, bucketVars, script, httpVars, ws, wsHist, cacheVars>>
SessionWrite(t, r) ==
    LET task == session.task[t]
        after == [session EXCEPT !.last_message = [by |-> t, at |-> "write"]]
    IN  /\ task.pc = "write"
        /\ session.tx.holder = "none"
        /\ r \in Recoverable => session.conns < MaxConn
        /\ session' =
             IF r = "written"
             THEN [after EXCEPT
                     !.written = [by |-> t, m |-> task.m, conn |-> session.tx.conn],
                     !.task[t].pc = IF t = "send" THEN "done" ELSE "top"]
             ELSE IF CheckError(r) = "reconnect"
             THEN [after EXCEPT !.task[t].pc = "connect", !.task[t].ret = "write",
                                !.task[t].retried = TRUE]
             ELSE [after EXCEPT !.task[t].pc = "panicked"]
        /\ UNCHANGED <<now, last, bucketVars, script, httpVars, ws, wsHist, cacheVars>>

\* reconnect: retrying_connect, one attempt; no guard is held
RetryingConnect(t, ok) ==
    LET task == session.task[t]
    IN  /\ task.pc = "connect"
        /\ ok \/ task.fails + 1 \in ConnectFails
        /\ session' =
             IF ok
             THEN [session EXCEPT !.conns = @ + 1,
                                  !.task[t].fresh = session.conns + 1,
                                  !.task[t].pc = "lock_tx"]
             ELSE [session EXCEPT !.task[t].fails = @ + 1]
        /\ UNCHANGED <<now, last, bucketVars, script, httpVars, ws, wsHist, cacheVars>>

\* reconnect: let mut t = self.tx.lock().await; *t = tx
ReconnectLockTx(t) ==
    /\ session.task[t].pc = "lock_tx"
    /\ session.tx.holder = "none"
    /\ session' = [session EXCEPT !.tx = [holder |-> t, conn |-> session.task[t].fresh],
                                  !.task[t].pc = "lock_rx"]
    /\ UNCHANGED <<now, last, bucketVars, script, httpVars, ws, wsHist, cacheVars>>

\* reconnect: let mut r = self.rx.lock().await; *r = rx; update_last_message;
\* both guards are dropped and the caller goes on where it failed
ReconnectLockRx(t) ==
    /\ session.task[t].pc = "lock_rx"
    /\ session.rx.holder = "none"
    /\ session' = [session EXCEPT
                      !.rx = [holder |-> "none", conn |-> session.task[t].fresh],
                      !.tx.holder = "none",
                      !.last_message = [by |-> t, at |-> "reconnect"],
                      !.task[t].pc = session.task[t].ret,
                      !.task[t].fails = 0]
    /\ UNCHANGED <<now, last, bucketVars, script, httpVars, ws, wsHist, cacheVars>>

\* next(), top of the loop: reconnect after two heartbeats of silence, else
\* self.rx.lock().await, kept over the select!
NextLockRx(dead) ==
    /\ session.task["next"].pc = "top"
    /\ IF dead
       THEN /\ session.conns < MaxConn
            /\ session' = [session EXCEPT !.task["next"].pc = "connect",
                                          !.task["next"].ret = "top"]
       ELSE /\ session.rx.holder = "none"
            /\ session' = [session EXCEPT !.rx.holder = "next",
                                          !.task["next"].pc = "select"]
    /\ UNCHANGED <<now, last, bucketVars, script, httpVars, ws, wsHist, cacheVars>>

\* next(), an arm of the select!: drop(rx), then send_ping for the heartbeat,
\* handle_message for a frame or a failed read
NextSelectKeepsRx(arm) ==
    /\ session.task["next"].pc = "select"
    /\ arm = "error" => session.conns < MaxConn
    /\ session' =
         CASE arm = "heartbeat" ->
                [session EXCEPT !.task["next"].pc = "write",
                                !.task["next"].m = "Ping",
                                !.task["next"].retried = FALSE]
           [] arm = "frame" ->
                [session EXCEPT !.last_message = [by |-> "next", at |-> "read"],
                                !.task["next"].pc = "top"]
           [] arm = "error" ->
                [session EXCEPT !.last_message = [by |-> "next", at |-> "read"],
                                !.task["next"].pc = "connect",
                                !.task["next"].ret = "top"]
    /\ UNCHANGED <<now, last, bucketVars, script, httpVars, ws, wsHist, cacheVars>>
NextSelect(arm) ==
    /\ session.task["next"].pc = "select"
    /\ arm = "error" => session.conns < MaxConn
    /\ session' =
         CASE arm = "heartbeat" ->
                [session EXCEPT !.rx.holder = "none",
                                !.task["next"].pc = "write",
                                !.task["next"].m = "Ping",
                                !.task["next"].retried = FALSE]
           [] arm = "frame" ->
                [session EXCEPT !.rx.holder = "none",
                                !.last_message = [by |-> "next", at |-> "read"],
                                !.task["next"].pc = "top"]
           [] arm = "error" ->
                [session EXCEPT !.rx.holder = "none",
                                !.last_message = [by |-> "next", at |-> "read"],
                                !.task["next"].pc = "connect",
                                !.task["next"].ret = "top"]
    /\ UNCHANGED <<now, last, bucketVars, script, httpVars, ws, wsHist, cacheVars>>

\* the heartbeat fires, a frame arrives or a read fails with a recoverable
\* error; a write succeeds or fails; a connection attempt succeeds or fails
SpecSession ==
    Init /\ [][
        \/ \E m \in {"m1", "m2"} : SessionSendCall(m)
        \/ \E t \in SessionTasks, r \in WriteErrors \cup {"written"} : SessionWrite(t, r)
        \/ \E t \in SessionTasks, ok \in BOOLEAN : RetryingConnect(t, ok)
        \/ \E t \in SessionTasks : ReconnectLockTx(t)
        \/ \E t \in SessionTasks : ReconnectLockRx(t)
        \/ \E dead \in BOOLEAN : NextLockRx(dead)
        \/ \E arm \in {"heartbeat", "frame", "error"} : NextSelect(arm)
        ]_vars

\* the scheduling next() and send() rely on: a tokio Mutex is fair, so a task
\* that waits for a guard gets it when it is free again and again; the
\* heartbeat timer of the select! fires; connection attempts come to succeed
SpecSessionLive ==
    /\ SpecSession
    /\ WF_vars(\E arm \in {"heartbeat", "frame"} : NextSelect(arm))
    /\ WF_vars(NextLockRx(FALSE))
    /\ \A t \in SessionTasks :
          /\ WF_vars(RetryingConnect(t, TRUE))
          /\ SF_vars(ReconnectLockTx(t))
          /\ SF_vars(ReconnectLockRx(t))
          /\ SF_vars(\E r \in WriteErrors \cup {"written"} : SessionWrite(t, r))
----------------------------------------------------------------------------
(* C1: for every bucket key, under any sequence of take and observe, the   *)
(* usage counter is at most the key's table limit.  As stated this fails:  *)
(* observe stores header limit - remaining, whatever the table limit is.   *)
C1_UsedAtMostTableLimit ==
    \A k \in Keys : buckets[k] # NoBucket => buckets[k].used <= Limit(k)

(* C1 as amended: the usage counter is at most the larger of the key's     *)
(* table limit and the limit header of the latest observe applied to it.   *)
C1_UsedAtMostTableOrObservedLimit ==
    \A k \in Keys :
        buckets[k] # NoBucket => buckets[k].used <= Max(Limit(k), seen[k])

C1_Witness ==
    \E k \in Keys :
        /\ buckets[k].used > Limit(k)
        /\ last = [op |-> "take", key |-> k, res |-> Err(buckets[k].reset - now)]

(* C2: from a key with no bucket and with no observe, the takes of one     *)
(* 10 s window return OK exactly limit times, the first included, and      *)
(* every further take of the window is refused with a retry-after          *)
(* duration; for every key family, limit 255 included.                     *)
C2_FreshKeyTakesLimitTimes ==
    \A k \in Keys :
        buckets[k] # NoBucket =>
            /\ hist[k].oks <= Limit(k)
            /\ hist[k].refused => hist[k].oks = Limit(k)
            /\ ~hist[k].okAfterRefusal
            /\ (last.op = "take" /\ last.key = k /\ now < hist[k].end) =>
                   IF last.res.ok
                   THEN ~hist[k].refused
                   ELSE /\ hist[k].oks = Limit(k)
                        /\ last.res.retry = hist[k].end - now
                        /\ last.res.retry > 0

C2_Witness ==
    \E k \in Keys :
        /\ Limit(k) = 255
        /\ hist[k].oks = 255
        /\ hist[k].refused
        /\ now < hist[k].end

(* C3: in the reconcile scenario the take after the observe succeeds and a *)
(* further five takes succeed (six in all, the 12th to the 17th).  As      *)
(* stated this fails: the observe leaves five, so the 17th is refused.     *)
C3_SixTakesAfterObserve ==
    (script.step = 18 /\ script.inWindow) =>
        /\ \A i \in 1 .. 10 : script.results[i].ok
        /\ ~script.results[11].ok
        /\ \A i \in 12 .. 17 : script.results[i].ok

(* C3 as amended: after ten successful takes and a refused 11th, the       *)
(* observe of limit=10, remaining=5, reset-after=1000 makes the next five  *)
(* takes (the 12th to the 16th) succeed and the 17th is refused with the   *)
(* time left to the observed reset, all within the windows.                *)
C3_FiveTakesAfterObserve ==
    script.inWindow =>
        /\ \A i \in 1 .. Len(script.results) :
               script.results[i].ok <=> i \in (1 .. 10) \cup (12 .. 16)
        /\ script.step = 18 =>
               /\ script.results[17].retry \in 1 .. ReconcileHeaders.reset_after
               /\ last.op = "take" => script.results[17] = Err(script.end - now)
               /\ buckets[MessagingX].used = 10

C3_Witness == script.step = 18 /\ script.inWindow

(* C4: when Http::request finds the bucket of (method, path) exhausted it  *)
(* fails at once with ApiError::RetryAfter(reset - now): no time passes,   *)
(* no request is built or sent, and the bucket is left as it was.          *)
C4_RefusedRequestFailsFast ==
    [][(last'.op = "request" /\ ~last'.res.ok) =>
          /\ last'.res = ApiError("RetryAfter", buckets[last'.key].reset - now)
          /\ last'.res.retry > 0
          /\ buckets' = buckets
          /\ tasks' = tasks
          /\ wire' = wire
          /\ now' = now]_vars

C4_Witness ==
    /\ last.op = "request"
    /\ ~last.res.ok
    /\ buckets[last.key].used = Limit(last.key)

(* C5: every request the client puts on the wire, upload_file included,    *)
(* follows a successful take on the key classified from it.                *)
C5_EveryRequestTakes == \A r \in wire : r.took

(* C6: when sending fails with no response, the call fails with the        *)
(* Transport kind (HttpError::Reqwest), not with an Api(ApiError).         *)
C6_TransportErrorIsReqwest ==
    (last.op = "response" /\ ~last.arrived) => last.res.kind = "Reqwest"

(* C7: on a connection that takes writes and delivers nothing, a task      *)
(* looping in next() has sent exactly one Ping once 30 s have passed, and  *)
(* has reconnected once when 60 s have passed with nothing heard.          *)
C7_PingOnceThenReconnect ==
    (wsHist.quiet /\ ws.pc = "select" /\ now < ws.deadline) =>
        /\ now < HEARTBEAT => wsHist.pings = 0 /\ ws.conn = 0
        /\ (now >= HEARTBEAT /\ now < 2 * HEARTBEAT) => wsHist.pings = 1 /\ ws.conn = 0
        /\ now >= 2 * HEARTBEAT => wsHist.pings = 1 /\ ws.conn = 1

(* C8: next() returns the decoded events in the order the server delivered *)
(* their frames, none twice and none out of order, and a Bulk is returned  *)
(* as the one event it was sent as.                                        *)
C8_ReturnedInDeliveryOrder ==
    \A i \in 1 .. Len(wsHist.returned) :
        LET r == wsHist.returned[i]
        IN  /\ r.id \in 1 .. Len(wsHist.all)
            /\ wsHist.all[r.id].kind = "Binary"
            /\ wsHist.all[r.id].data = Msgpack(r.msg)
            /\ i > 1 => wsHist.returned[i - 1].id < r.id

C8_Witness ==
    /\ Len(wsHist.returned) >= 2
    /\ \E i \in 1 .. Len(wsHist.returned) : wsHist.returned[i].msg.type = "Bulk"

(* C9: next() hands its caller nothing but decoded ServerMessages: on a    *)
(* recoverable stream error or the end of the stream it reconnects and     *)
(* loops, on a frame that does not decode or is not binary it drops the    *)
(* frame and loops; it panics on no transport or protocol error.           *)
C9_HandledInsideNext ==
    /\ [](\A i \in 1 .. Len(wsHist.returned) : wsHist.returned[i].msg \in ServerMessages)
    /\ []((ws.pc = "panicked" /\ last.op = "ws_message") =>
              last.item.kind = "Err" /\ last.item.data \notin Recoverable)
    /\ [][last'.op = "ws_message" =>
            LET item == last'.item
            IN  IF item.kind = "Eof" \/ (item.kind = "Err" /\ item.data \in Recoverable)
                THEN /\ ws'.pc = "top"
                     /\ ws'.conn = ws.conn + 1
                     /\ wsHist'.returned = wsHist.returned
                ELSE IF item.kind = "Err"
                THEN ws'.pc = "panicked" /\ wsHist'.returned = wsHist.returned
                ELSE IF item.kind = "Binary" /\ item.data.fmt = "msgpack"
                THEN /\ ws'.pc = "idle"
                     /\ wsHist'.returned =
                            Append(wsHist.returned, [id |-> item.id, msg |-> item.data.msg])
                ELSE /\ ws'.pc = "top"
                     /\ ws'.conn = ws.conn
                     /\ wsHist'.returned = wsHist.returned]_vars

C9_Witness ==
    /\ last.op = "ws_message"
    /\ last.item.kind = "Err"
    /\ last.item.data \in Recoverable
    /\ ws.pc = "top"
    /\ Len(wsHist.returned) = 1

(* C10: when the heartbeat wins the select! over a pending read, no frame  *)
(* is lost: every frame the server delivered on the current connection has *)
(* been handed to handle_message or is still held, whole or in part, by    *)
(* the stream, in the order of delivery.                                   *)
OnCurrentConn(item) == item.conn = ws.conn

----------------------------------------------------------------------------
(* C11: a Ready with users u1 (the session user) and u2, server s1, the    *)
(* TextChannel c1 of s1 and the members (s1, u1), (s1, u2), followed by    *)
(* Message m1 in c1 by u2 with content hi, leaves the session user id u1,  *)
(* channels[c1].last_message_id = m1 and messages[m1].content = hi.  Any   *)
(* Message sets last_message_id of its channel when that is a cached       *)
(* DirectMessage, Group or TextChannel, changes no other channel, and is   *)
(* inserted in messages.                                                   *)
C11_ReadyThenMessage ==
    [][/\ (cacheLast.ev = ReadySmall /\ cacheLast'.ev = MessageHi) =>
            /\ cache'.user_id = "u1"
            /\ cache'.channels["c1"].last_message_id = "m1"
            /\ cache'.messages["m1"].content = "hi"
       /\ cacheLast'.ev.type = "Message" =>
            LET m == cacheLast'.ev.message
            IN  /\ m.id \in DOMAIN cache'.messages
                /\ cache'.messages[m.id] = m
                /\ DOMAIN cache'.channels = DOMAIN cache.channels
                /\ \A ch \in DOMAIN cache.channels :
                      cache'.channels[ch] =
                        IF ch = m.channel
                           /\ cache.channels[ch].channel_type
                                \in {"DirectMessage", "Group", "TextChannel"}
                        THEN [cache.channels[ch] EXCEPT !.last_message_id = m.id]
                        ELSE cache.channels[ch]]_vars

C11_Witness ==
    /\ cacheLast.ev = MessageHi
    /\ cache.user_id = "u1"
    /\ DOMAIN cache.channels = {"c1"}
    /\ cache.channels["c1"].last_message_id = "m1"
    /\ "m1" \in DOMAIN cache.messages /\ cache.messages["m1"].content = "hi"

----------------------------------------------------------------------------
(* C12: after ServerDelete{S} in any state, servers[S] and members[S] are  *)
(* absent, every channel whose server_id is S and every emoji whose parent *)
(* is Server{S} is absent, and the channels and emojis of other servers    *)
(* and the detached emojis are left as they were.  The code keeps exactly  *)
(* the emojis of S and drops all the others, so this fails.                *)
C12_ServerDeleteCascades ==
    [][cacheLast'.ev.type = "ServerDelete" =>
        LET S == cacheLast'.ev.id
        IN  /\ S \notin DOMAIN cache'.servers
            /\ S \notin DOMAIN cache'.members
            /\ cache'.channels =
                 [x \in {y \in DOMAIN cache.channels : cache.channels[y].server_id # S}
                    |-> cache.channels[x]]
            /\ cache'.emojis =
                 [x \in {y \in DOMAIN cache.emojis : cache.emojis[y].parent # S}
                    |-> cache.emojis[x]]]_vars

(* C13: ServerMemberLeave{S, user} for the session user leaves neither     *)
(* servers[S] nor members[S], nor a channel whose server_id is S (listed   *)
(* by the server or not), nor an emoji whose parent is Server{S}.  The     *)
(* code removes the listed channels only and no emoji, so this fails.      *)
C13_SelfLeaveCascades ==
    [][(/\ cacheLast'.ev.type = "ServerMemberLeave"
        /\ cache.user_id # NoId
        /\ cacheLast'.ev.user_id = cache.user_id) =>
        LET S == cacheLast'.ev.id
        IN  /\ S \notin DOMAIN cache'.servers
            /\ S \notin DOMAIN cache'.members
            /\ \A x \in DOMAIN cache'.channels : cache'.channels[x].server_id # S
            /\ \A x \in DOMAIN cache'.emojis : cache'.emojis[x].parent # S]_vars

(* C14: an update with ServerRoleDelete{S, R} takes R out of                *)
(* servers[S].roles and out of the roles of every member cached for S, in  *)
(* a Partial or a Full table, and changes no other role, no other member   *)
(* and no other server.                                                    *)
C14_RoleDeleteStripsMembers ==
    [][(cacheLast'.tick # cacheLast.tick /\ cacheLast'.ev.type = "ServerRoleDelete") =>
        LET S == cacheLast'.ev.id
            R == cacheLast'.ev.role_id
        IN  /\ DOMAIN cache'.servers = DOMAIN cache.servers
            /\ \A s \in DOMAIN cache.servers :
                  cache'.servers[s] =
                    IF s = S THEN [cache.servers[s] EXCEPT !.roles = @ \ {R}]
                    ELSE cache.servers[s]
            /\ DOMAIN cache'.members = DOMAIN cache.members
            /\ \A s \in DOMAIN cache.members :
                  /\ cache'.members[s].full = cache.members[s].full
                  /\ DOMAIN cache'.members[s].of = DOMAIN cache.members[s].of
                  /\ \A u \in DOMAIN cache.members[s].of :
                        /\ s = S => R \notin cache'.members[s].of[u].roles
                        /\ cache'.members[s].of[u] =
                             IF s = S
                             THEN [cache.members[s].of[u] EXCEPT !.roles = @ \ {R}]
                             ELSE cache.members[s].of[u]]_vars

\* a role deleted from a Full table whose member held it and another role
C14_Witness ==
    /\ cacheLast.ev = [type |-> "ServerRoleDelete", id |-> "s1", role_id |-> "r1"]
    /\ "s1" \in DOMAIN cache.members /\ cache.members["s1"].full
    /\ "s2" \in DOMAIN cache.members /\ ~cache.members["s2"].full
    /\ "u2" \in DOMAIN cache.members["s1"].of
    /\ cache.members["s1"].of["u2"].roles = {"r2"}
    /\ cache.members["s2"].of["u1"].roles = {"r1"}
    /\ cache.servers["s1"].roles = {"r2"}

(* C15: under any sequence of Ready, ChannelCreate, ChannelUpdate and      *)
(* ChannelDelete, every DirectMessage channel D in channels has            *)
(* user_dms[other(D)] = D.id, other(D) being the recipient that is not the *)
(* session user.                                                           *)
C15_DmIndexed ==
    \A x \in DOMAIN cache.channels :
        cache.channels[x].channel_type = "DirectMessage" =>
            LET other == OtherOf(cache.channels[x], cache.user_id)
            IN  other \in DOMAIN cache.user_dms /\ cache.user_dms[other] = x

\* both DirectMessage channels cached, the second by a ChannelCreate that
\* followed a ChannelDelete and another Ready
C15_Witness ==
    /\ cacheLast.ev.type = "ChannelCreate" /\ cacheLast.readys = 2
    /\ {"d1", "d2"} \subseteq DOMAIN cache.channels
    /\ cache.user_dms = [u \in {"u2", "u3"} |-> IF u = "u2" THEN "d1" ELSE "d2"]

(* C16: an update with ChannelDelete{D} leaves D out of channels; when D   *)
(* was a cached DirectMessage, other(D) is no key of user_dms afterwards,  *)
(* and otherwise user_dms is unchanged.                                    *)
C16_ChannelDeleteUnindexes ==
    [][(cacheLast'.tick # cacheLast.tick /\ cacheLast'.ev.type = "ChannelDelete") =>
        LET D == cacheLast'.ev.id
        IN  /\ D \notin DOMAIN cache'.channels
            /\ IF D \in DOMAIN cache.channels
                  /\ cache.channels[D].channel_type = "DirectMessage"
               THEN OtherOf(cache.channels[D], cache.user_id)
                        \notin DOMAIN cache'.user_dms
               ELSE cache'.user_dms = cache.user_dms]_vars

\* d1 deleted while d2 stays indexed
C16_Witness ==
    /\ cacheLast.ev = [type |-> "ChannelDelete", id |-> "d1"]
    /\ DOMAIN cache.user_dms = {"u3"}
    /\ "d2" \in DOMAIN cache.channels /\ "d1" \notin DOMAIN cache.channels

(* C17: under Ready, ServerCreate, ChannelCreate, ServerDelete and         *)
(* ServerMemberLeave, every cached TextChannel or VoiceChannel has its     *)
(* server in servers.  The session user's ServerMemberLeave leaves the     *)
(* channels that the server's channel list does not name, so this fails.   *)
C17_ServerChannelHasServer ==
    \A x \in DOMAIN cache.channels :
        cache.channels[x].channel_type \in {"TextChannel", "VoiceChannel"}
            => cache.channels[x].server_id \in DOMAIN cache.servers

(* C18: after a Ready, every server in servers has a member table, empty   *)
(* or not.  Ready builds a table only for the servers that its member list *)
(* names, so this fails for a server without a listed member.              *)
C18_EveryServerHasMemberTable ==
    cacheLast.readys >= 1 =>
        \A s \in DOMAIN cache.servers : s \in DOMAIN cache.members

(* C19: the session user id and the mention "<@id>" are assigned once, by  *)
(* the first Ready, and keep their values whatever events follow; a        *)
(* further Ready does not silently replace them but is treated as a        *)
(* programming error.  The last part fails: get_or_init ignores the        *)
(* further Ready without any error.                                        *)
C19_FurtherReadyIsAnError ==
    [][/\ cache.user_id # NoId =>
            /\ cache'.user_id = cache.user_id
            /\ cache'.user_mention = cache.user_mention
       /\ (/\ cacheLast'.tick # cacheLast.tick
           /\ cacheLast'.ev.type = "Ready"
           /\ cache.user_id # NoId) => cache'.panicked]_vars

(* C19 as amended: the id and the mention are assigned by the first Ready, *)
(* the mention being "<@id>", and keep their values whatever events        *)
(* follow; a further Ready that names a session user is no error, it       *)
(* leaves the two values alone and replaces the session user object.       *)
C19_FurtherReadyIsIgnored ==
    [][/\ cache.user_id # NoId =>
            /\ cache'.user_id = cache.user_id
            /\ cache'.user_mention = cache.user_mention
       /\ cache'.user_id # NoId => cache'.user_mention = Mention(cache'.user_id)
       /\ (/\ cacheLast'.tick # cacheLast.tick
           /\ cacheLast'.ev.type = "Ready"
           /\ cache.user_id # NoId) =>
            /\ ~cache'.panicked
            /\ cache'.user \in cacheLast'.ev.users
            /\ cache'.user.relationship = "User"]_vars

\* a second Ready, for u2, on the cache of the session of u1
C19_Witness ==
    /\ cacheLast.ev.type = "Ready" /\ cacheLast.readys = 2
    /\ cache.user_id = "u1" /\ cache.user_mention = <<"<@", "u1", ">">>
    /\ cache.user.id = "u2"
    /\ ~cache.panicked

(* C20: after an update with UserUpdate for the session user, user() shows *)
(* the update's data and cleared fields, whether the session user's entry  *)
(* is in the users cache or not.  The code updates the session user from   *)
(* the entry of the users cache only, so this fails when the entry is gone.*)
C20_SessionUserFollowsUpdate ==
    [][(/\ cacheLast'.tick # cacheLast.tick
        /\ cacheLast'.ev.type = "UserUpdate"
        /\ cache.user_id # NoId
        /\ cacheLast'.ev.id = cache.user_id) =>
        LET ev == cacheLast'.ev
        IN  /\ "DisplayName" \in ev.clear => cache'.user.display_name = NoId
            /\ "StatusText" \in ev.clear => cache'.user.status_text = NoId
            /\ (ev.data.display_name # NoId /\ "DisplayName" \notin ev.clear)
                  => cache'.user.display_name = ev.data.display_name]_vars


(* C21: single flight.  While calls of fetch_member(S, U), or of           *)
(* fetch_user(U), that missed on one key are waiting, exactly one HTTP     *)
(* fetch has been issued for the key; when the fetch answers, every one of *)
(* the waiting callers returns that same outcome, the value on success or  *)
(* the error on failure; the value of a success is in the cache and a      *)
(* failure leaves the cache as it was.                                     *)
C21_SingleFlight ==
    /\ [](\A i \in 1..MaxEvents :
            flights.call[i].pc \in {"leader", "waiter"}
                => flights.sent[flights.call[i].key] = 1)
    /\ [][\A i \in 1..MaxEvents :
            (flights.call[i].pc \in {"leader", "waiter"} /\ flights'.call[i].pc = "run")
            => LET key == flights.call[i].key
                   res == flights'.call[i].res
                   table == IF key.server = NoId THEN cache'.users
                            ELSE cache'.members[key.server].of
               IN  /\ \A j \in 1..MaxEvents :
                         (flights.call[j].pc \in {"leader", "waiter"}
                          /\ flights.call[j].key = key)
                         => flights'.call[j].pc = "run" /\ flights'.call[j].res = res
                   /\ res.ok => key.user \in DOMAIN table /\ table[key.user] = res.value
                   /\ ~res.ok => cache' = cache /\ key.user \notin DOMAIN table
         ]_vars

\* two handlers wait for one fetch of the member u2 of s1
C21_Witness ==
    \E i, j \in 1..MaxEvents :
        /\ flights.call[i].pc = "leader" /\ flights.call[j].pc = "waiter"
        /\ flights.call[i].key = [server |-> "s1", user |-> "u2"]
        /\ flights.call[j].key = [server |-> "s1", user |-> "u2"]
        /\ flights.sent[[server |-> "s1", user |-> "u2"]] = 1

(* C22: promotion is one-way.  A step that starts with the member table of *)
(* a cached server S Full and ends with S still cached ends with the table *)
(* of S Full.                                                              *)
C22_PromotionIsOneWay ==
    [][\A s \in ServerIds :
          (/\ s \in DOMAIN cache.members /\ cache.members[s].full
           /\ s \in DOMAIN cache.servers /\ s \in DOMAIN cache'.servers)
          => s \in DOMAIN cache'.members /\ cache'.members[s].full
      ]_vars

(* C23: event application is deterministic.  Whenever two fresh caches     *)
(* have been fed the same events, they agree on the session user, users,   *)
(* servers, channels, emojis, members, messages and user_dms.              *)
C23_ReplayIsDeterministic ==
    replica.pending = <<>>
        => /\ replica.cache.user = cache.user
           /\ replica.cache.users = cache.users
           /\ replica.cache.servers = cache.servers
           /\ replica.cache.channels = cache.channels
           /\ replica.cache.emojis = cache.emojis
           /\ replica.cache.members = cache.members
           /\ replica.cache.messages = cache.messages
           /\ replica.cache.user_dms = cache.user_dms

(* C24: the driver loop.  cache.update is given the events one at a time   *)
(* in the order next() returned them: the k-th update applies the k-th     *)
(* event pulled, and at most one pulled event is not yet applied.  The     *)
(* handler task of the i-th event exists only when the cache has applied   *)
(* the first i events.                                                     *)
C24_DriverOrder ==
    /\ [](/\ driver.spawned <= driver.applied
          /\ driver.applied <= Len(driver.pulled)
          /\ Len(driver.pulled) <= driver.applied + 1
          /\ driver.applied <= driver.spawned + 1
          /\ driver.applied > 0 => cacheLast.ev = driver.pulled[driver.applied]
          /\ \A i \in 1..MaxEvents :
                flights.call[i].pc # "none" => i <= driver.applied)
    /\ [][driver'.applied # driver.applied
            => /\ driver'.applied = driver.applied + 1
               /\ driver'.pulled = driver.pulled
               /\ \E pick \in UserIds :
                     cache' = UpdateOf(cache, driver.pulled[driver'.applied], pick)
               /\ cacheLast'.ev = driver.pulled[driver'.applied]
         ]_vars

\* the handlers of two events run at once, and the later one returns first
C24_Witness ==
    /\ driver.applied = 2
    /\ flights.call[1].pc = "await"
    /\ flights.call[2].pc = "done"

(* C25: a handler does not stall the pump.  The driver, inside             *)
(* cache.update, never waits for a lock that a handler task keeps while    *)
(* the handler awaits its HTTP fetch.                                      *)
C25_HandlerNeverStallsPump == ~WriterQueued

(* C26: delete_messages.  The body of the request is the id list without   *)
(* the ids that are not valid ULIDs and without the ids that are seven     *)
(* days old or older, every other id kept as often as it was given.  When  *)
(* no id or more than 100 ids remain, the call returns FailedValidation    *)
(* and takes no token, builds no request and sends nothing; otherwise it   *)
(* goes on to Http::request, and the request that builds, when the bucket  *)
(* grants a token, carries that body.                                      *)
C26_BulkDeleteFilters ==
    [][last'.op = "delete_messages"
        => LET ids == last'.ids
               body == last'.body
               t == last'.task
               recent(x) == x.valid /\ x.ts > now - SevenDays
               count(seq, x) == Cardinality({i \in 1..Len(seq) : seq[i] = x})
           IN  /\ \A i \in 1..Len(body) : recent(body[i])
               /\ \A i \in 1..Len(ids) :
                     count(body, ids[i]) = IF recent(ids[i]) THEN count(ids, ids[i]) ELSE 0
               /\ (Len(body) = 0 \/ Len(body) > MaxBulk)
                     => /\ last'.res = ApiError("FailedValidation", 0)
                        /\ buckets' = buckets /\ tasks' = tasks /\ wire' = wire
               /\ (Len(body) > 0 /\ Len(body) <= MaxBulk)
                     => /\ last'.res.ok \/ last'.res.err = "RetryAfter"
                        /\ wire' = wire
                        /\ last'.res.ok => /\ buckets' # buckets
                                           /\ tasks'[t].st = "built"
                                           /\ tasks'[t].body = body
      ]_vars

\* a list of 101 ids, one of them too old, went out as a request of 100 ids
C26_Witness ==
    /\ last.op = "delete_messages"
    /\ Len(last.ids) = MaxBulk + 1
    /\ Len(last.body) = MaxBulk
    /\ last.res.ok
    /\ tasks[last.task].st = "built"

(* C27: send_message with empty content.  A call whose message has content *)
(* of length 0 returns FailedValidation.                                   *)
C27_EmptyContentRejected ==
    (last.op = "send_message" /\ last.content = 0)
        => last.res = ApiError("FailedValidation", 0)

(* C28: owner override.  For a member of the server who is its owner, the  *)
(* permissions in a channel of the server are GrantAllSafe, whatever the   *)
(* member's roles and timeout, the server's default permissions and the    *)
(* channel's default and per-role overrides.                               *)
C28_OwnerOverride ==
    (/\ last.op = "permissions"
     /\ last.member.server = last.server.id
     /\ last.member.user = last.server.owner)
        => last.of_channel = GrantAllSafe

\* the owner holds roles, is in timeout, and the channel has overrides
C28_Witness ==
    /\ last.op = "permissions"
    /\ last.member.server = last.server.id
    /\ last.member.user = last.server.owner
    /\ last.member.roles = {"r1", "r2"}
    /\ last.member.timeout > now
    /\ last.default # {}
    /\ last.role_permissions # Empty
    /\ last.server.default_permissions # GrantAllSafe
    /\ last.of_channel = GrantAllSafe

(* C29: calculate_server_permissions.  A member of another server gets 0.  *)
(* For a member of the server who is not its owner, a bit that none of the *)
(* member's existing roles allows or denies is as the server's default     *)
(* permissions have it; a bit that some of them allow or deny is as the    *)
(* one of smallest rank among those has it, set unless that role denies    *)
(* it; and when the member is in timeout only the bits of ALLOW_IN_TIMEOUT *)
(* stay.  (When several roles of that smallest rank touch the bit, the     *)
(* order among them is not determined.)                                    *)
C29_RolesByRank ==
    last.op = "permissions"
        => LET server == last.server
               member == last.member
               held == member.roles \cap DOMAIN server.roles
               touch(b) == {r \in held : b \in server.roles[r].allow \cup server.roles[r].deny}
               least(b) == {r \in touch(b) :
                              \A q \in touch(b) : server.roles[r].rank <= server.roles[q].rank}
               in_timeout == member.timeout # -1 /\ member.timeout > now
           IN  /\ member.server # server.id => last.of_server = {}
               /\ (member.server = server.id /\ member.user # server.owner)
                    => \A b \in {"view", "send", "manage", "other"} :
                          Cardinality(least(b)) <= 1
                          => (b \in last.of_server
                              <=> /\ IF touch(b) = {} THEN b \in server.default_permissions
                                     ELSE \A r \in least(b) : b \notin server.roles[r].deny
                                  /\ in_timeout => b \in AllowInTimeout)

\* the member holds two roles that disagree on a bit, and the bit is as the
\* role of smaller rank has it
C29_Witness ==
    /\ last.op = "permissions"
    /\ last.member.server = last.server.id
    /\ last.member.user # last.server.owner
    /\ last.member.roles = {"r1", "r2"}
    /\ last.member.timeout = -1
    /\ last.server.roles["r1"].rank < last.server.roles["r2"].rank
    /\ "send" \in last.server.roles["r1"].deny
    /\ "send" \in last.server.roles["r2"].allow \ last.server.roles["r2"].deny
    /\ "send" \in last.server.default_permissions
    /\ "send" \notin last.of_server

(* C30: RetryAfter is a retry signal.  After take(K) was refused with      *)
(* duration d and while no observe(K) happened, the instant d runs out is  *)
(* not after the reset instant of the bucket; and a take(K) at or after    *)
(* that instant is granted, leaving the bucket with one token used and a   *)
(* window of 10 s from that take.                                          *)
C30_RetryAfterIsEnough ==
    /\ [](script.step = 1
            => \A k \in SmallKeys : buckets[k] # NoBucket => script.end <= buckets[k].reset)
    /\ [][(script.step = 1 /\ now >= script.end /\ last'.op = "take")
            => /\ last'.res.ok
               /\ buckets'[last'.key] = Bucket(1, now + Window)
         ]_vars

\* a take was refused, its duration ran out, and the next take was granted
C30_Witness ==
    /\ script.step = 2
    /\ last.op = "take"
    /\ last.res.ok
    /\ buckets[last.key] = Bucket(1, now + Window)

(* C31: frame and effect of observe.  An observe(K, headers) whose three   *)
(* rate-limit headers are all present and parseable leaves bucket K with   *)
(* used = max(limit - remaining, 0) and reset = now + reset_after; an      *)
(* observe with any of them missing or unparseable leaves bucket K as it   *)
(* was; and no observe changes the bucket of another key.                  *)
C31_ObserveAppliesHeaders ==
    [][\A k \in SmallKeys, h \in Headers :
           Observe(k, h)
               => /\ HdrParseable(h)
                      => buckets'[k] = Bucket(Max(h.limit - h.remaining, 0),
                                              now + h.reset_after)
                  /\ ~HdrParseable(h) => buckets'[k] = buckets[k]
                  /\ \A j \in Keys \ {k} : buckets'[j] = buckets[j]
      ]_vars

(* C36: promotion is race-free.  No ensure_members call ever runs          *)
(* make_full on a member table that is already Full: whatever the          *)
(* interleaving of the calls for one server, none of them panics.          *)
C36_PromotedExactlyOnce == \A h \in Handlers : fetches[h].pc # "panicked"

(* C38: the session user is one user.  In every state reached by events    *)
(* that begin with a Ready, the session user object user() carries the id  *)
(* that user_id() returns, also after a further Ready whose snapshot tags  *)
(* another user with relationship User.                                    *)
C38_SessionIdentityAgrees ==
    (cacheLast.readys > 0 /\ ~cache.panicked) => cache.user.id = cache.user_id

(* C35 as stated: Ready replaces the cache.  After a Ready was applied, in  *)
(* whatever state the cache was, users, servers, channels, emojis and the  *)
(* member tables hold the entities of that snapshot and no other, and      *)
(* user_dms holds one entry other(D) -> D.id for each DirectMessage D of   *)
(* the snapshot and no other.                                              *)
C35_ReadyHoldsWholeSnapshot ==
    [][(cacheLast' # cacheLast /\ cacheLast'.ev.type = "Ready" /\ ~cache'.panicked)
        => LET ev == cacheLast'.ev
               self == CHOOSE u \in ev.users : u.relationship = "User"
               dms == {ch \in ev.channels : ch.channel_type = "DirectMessage"}
               Holds(table, values) ==
                   /\ DOMAIN table = {v.id : v \in values}
                   /\ \A v \in values : table[v.id] = v
           IN  /\ Holds(cache'.users, ev.users)
               /\ Holds(cache'.servers, ev.servers)
               /\ Holds(cache'.channels, ev.channels)
               /\ Holds(cache'.emojis, ev.emojis)
               /\ DOMAIN cache'.members = {m.server : m \in ev.members}
               /\ \A s \in DOMAIN cache'.members :
                      /\ ~cache'.members[s].full
                      /\ DOMAIN cache'.members[s].of
                            = {m.user : m \in {x \in ev.members : x.server = s}}
               /\ \A m \in ev.members : cache'.members[m.server].of[m.user] = m
               /\ Cardinality(DOMAIN cache'.user_dms) = Cardinality(dms)
               /\ \A d \in dms :
                      \E o \in d.recipients \ {self.id} :
                          o \in DOMAIN cache'.user_dms /\ cache'.user_dms[o] = d.id
      ]_vars

(* C35 amended: after a Ready nothing cached before survives.  servers,    *)
(* channels and emojis hold the entities of the snapshot and no other;     *)
(* users and each member table (Partial again) hold entities of the        *)
(* snapshot only, all of them up to the capacity of the table; user_dms    *)
(* holds one entry other(D) -> D.id per DirectMessage of the snapshot.     *)
C35_ReadyReplacesAll ==
    [][(cacheLast' # cacheLast /\ cacheLast'.ev.type = "Ready" /\ ~cache'.panicked)
        => LET ev == cacheLast'.ev
               self == CHOOSE u \in ev.users : u.relationship = "User"
               dms == {ch \in ev.channels : ch.channel_type = "DirectMessage"}
               Holds(table, values) ==
                   /\ DOMAIN table = {v.id : v \in values}
                   /\ \A v \in values : table[v.id] = v
               Of(s) == {x \in ev.members : x.server = s}
           IN  /\ DOMAIN cache'.users \subseteq {u.id : u \in ev.users}
               /\ \A u \in ev.users :
                      u.id \in DOMAIN cache'.users => cache'.users[u.id] = u
               /\ Cardinality(DOMAIN cache'.users)
                      = Min(Cardinality(ev.users), MaxUsers)
               /\ Holds(cache'.servers, ev.servers)
               /\ Holds(cache'.channels, ev.channels)
               /\ Holds(cache'.emojis, ev.emojis)
               /\ DOMAIN cache'.members = {m.server : m \in ev.members}
               /\ \A s \in DOMAIN cache'.members :
                      /\ ~cache'.members[s].full
                      /\ DOMAIN cache'.members[s].of \subseteq {m.user : m \in Of(s)}
                      /\ \A m \in Of(s) :
                             m.user \in DOMAIN cache'.members[s].of
                                 => cache'.members[s].of[m.user] = m
                      /\ Cardinality(DOMAIN cache'.members[s].of)
                             = Min(Cardinality(Of(s)), MaxMembers)
               /\ Cardinality(DOMAIN cache'.user_dms) = Cardinality(dms)
               /\ \A d \in dms :
                      \E o \in d.recipients \ {self.id} :
                          o \in DOMAIN cache'.user_dms /\ cache'.user_dms[o] = d.id
      ]_vars

\* a second Ready, with two DirectMessage channels and no server, was applied
\* to a cache that held the first snapshot
C35_Witness ==
    /\ cacheLast.readys = 2
    /\ cacheLast.ev.type = "Ready"
    /\ ~cache.panicked
    /\ cacheLast.ev.servers = {}
    /\ cache.servers = Empty
    /\ Cardinality(DOMAIN cache.user_dms) = 2

(* C39: member events are not lost across promotion.  When the latest      *)
(* member event of S was applied after ensure_members(S) released its read *)
(* lock and before it installs the Full table, the table it installs       *)
(* reflects the event: a member who left is absent, a member who joined is *)
(* present, a deleted role is held by no member.                           *)
C39_EventsSurvivePromotion ==
    [][\A s \in DOMAIN cache.members :
          (/\ ~cache.members[s].full
           /\ s \in DOMAIN cache'.members
           /\ cache'.members[s].full
           /\ cacheLast.ev.type \in {"ServerMemberLeave", "ServerMemberJoin",
                                     "ServerRoleDelete"}
           /\ cacheLast.ev.id = s)
          => LET ev == cacheLast.ev
                 table == cache'.members[s].of
             IN  /\ ev.type = "ServerMemberLeave" => ev.user_id \notin DOMAIN table
                 /\ ev.type = "ServerMemberJoin" => ev.user_id \in DOMAIN table
                 /\ ev.type = "ServerRoleDelete"
                       => \A u \in DOMAIN table : ev.role_id \notin table[u].roles
      ]_vars

(* C37: fetch_dm always returns.  No fetch_dm call holds the user_dms read *)
(* guard and waits for channels while the ChannelDelete arm holds the      *)
(* channels write guard and waits for user_dms, and no fetch_dm call       *)
(* panics on a channel id that user_dms holds and channels lacks.          *)
C37_FetchDmReturns ==
    /\ ~(driver.pc = "delete_dm" /\ \E h \in Handlers : fetches[h].pc = "get_channel")
    /\ \A h \in Handlers : fetches[h].pc # "panicked"

(* C34: Bulk expansion.  cache.update on Bulk{v} leaves the cache in the   *)
(* state that applying the elements of v one by one, in list order and     *)
(* recursively for a nested Bulk, produces; and on_event on Bulk{v}        *)
(* invokes the typed callbacks of the elements in that same order, each    *)
(* one returning before the next is invoked.                               *)
C34_BulkIsItsElements ==
    /\ [][(cacheLast' # cacheLast /\ cacheLast'.ev.type = "Bulk")
            => LET RECURSIVE Flatten(_)
                   Flatten(v) ==
                       IF v = <<>> THEN <<>>
                       ELSE IF Head(v).type = "Bulk"
                       THEN Flatten(Head(v).v) \o Flatten(Tail(v))
                       ELSE <<Head(v)>> \o Flatten(Tail(v))
                   RECURSIVE OneByOne(_, _, _)
                   OneByOne(c, flat, pick) ==
                       IF flat = <<>> \/ c.panicked THEN c
                       ELSE OneByOne(UpdateOf(c, Head(flat), pick), Tail(flat), pick)
               IN  \E pick \in UserIds :
                       cache' = OneByOne(cache, Flatten(cacheLast'.ev.v), pick)
         ]_vars
    /\ [](\A i \in 1..MaxEvents :
            flights.call[i].pc \in {"match", "callback", "done"}
            => LET RECURSIVE Types(_)
                   Types(v) ==
                       IF v = <<>> THEN <<>>
                       ELSE IF Head(v).type = "Bulk"
                       THEN Types(Head(v).v) \o Types(Tail(v))
                       ELSE <<Head(v).type>> \o Types(Tail(v))
                   call == flights.call[i]
                   flat == Types(<<call.ev>>)
                   n == Len(call.log)
               IN  /\ n <= 2 * Len(flat)
                   /\ \A k \in 1..n :
                         call.log[k] = <<IF k % 2 = 1 THEN "call" ELSE "return",
                                         flat[(k + 1) \div 2]>>
                   /\ call.pc = "done" => n = 2 * Len(flat))

\* on_event has returned from a Bulk that nests a Bulk, and the cache was last
\* updated with such a Bulk
C34_Witness ==
    /\ flights.call[1].pc = "done"
    /\ Len(flights.call[1].log) = 8
    /\ cacheLast.ev.type = "Bulk"
    /\ Len(cacheLast.ev.v) = 3
    /\ ~cache.panicked
    /\ cache.user_id = "u1"

(* C32: reconnect policy.  check_error recovers from ConnectionClosed,     *)
(* AlreadyClosed, Io, Tls and Protocol and from no other kind.  When a     *)
(* read of next() or a write of send() fails with one of the five, the     *)
(* session sleeps 5 s, connects with 5 s after each failed attempt,        *)
(* installs the new sink and stream and goes on in next() or send(); with  *)
(* any other kind it panics, keeps its connection and takes no further     *)
(* step.                                                                   *)
C32_ReconnectPolicy ==
    /\ [](/\ \A e \in {"ConnectionClosed", "AlreadyClosed", "Io", "Tls", "Protocol"} :
                CheckError(e) = "reconnect"
          /\ \A e \in {"Capacity", "WriteBufferFull", "Utf8", "AttackAttempt", "Url",
                       "Http", "HttpFormat"} :
                CheckError(e) = "panic")
    /\ [][LET read == last'.op = "ws_message" /\ last'.item.kind = "Err"
              write == last'.op = "ws_send" /\ last'.error # "written"
              e == IF read THEN last'.item.data ELSE last'.error
              slept == now' - now
          IN  (ws.pc \in {"select", "sending"} /\ (read \/ write))
              => IF e \in {"ConnectionClosed", "AlreadyClosed", "Io", "Tls", "Protocol"}
                 THEN /\ slept >= 5000
                      /\ (slept - 5000) % 5000 = 0
                      /\ ws'.conn = ws.conn + 1
                      /\ ws'.rx = <<>>
                      /\ ws'.last_message = now'
                      /\ ws'.pc = IF read THEN "top" ELSE "sending"
                 ELSE /\ ws'.pc = "panicked"
                      /\ ws'.conn = ws.conn
         ]_vars
    /\ [][ws.pc = "panicked" => ws'.pc = "panicked" /\ ws'.conn = ws.conn]_vars

\* a read failed with a protocol error and the session is on a new
\* connection, at the top of the loop of next()
C32_Witness ==
    /\ last.op = "ws_message"
    /\ last.item.kind = "Err"
    /\ last.item.data = "Protocol"
    /\ ws.conn = last.item.conn + 1
    /\ ws.pc = "top"
    /\ ws.last_message = now

(* C33: send retries until written.  Every write attempt of send(m) is     *)
(* followed by an update of last_message.  An attempt that fails with a    *)
(* recoverable error sends the task into reconnect and back to a write of  *)
(* the same m; send returns Ok only from an attempt that wrote m on the    *)
(* connection tx holds at that moment.                                     *)
C33_SendRetriesSameMessage ==
    [][LET old == session.task["send"]
           new == session'.task["send"]
       IN  /\ (old.pc = "write" /\ new # old)
                => /\ session'.last_message = [by |-> "send", at |-> "write"]
                   /\ new.m = old.m
                   /\ \/ /\ new.pc = "done"
                         /\ session'.written =
                               [by |-> "send", m |-> old.m, conn |-> session'.tx.conn]
                         /\ session'.tx = session.tx
                      \/ /\ new.pc = "connect"
                         /\ new.ret = "write"
                         /\ new.retried
                         /\ session'.written = session.written
                      \/ /\ new.pc = "panicked"
                         /\ session'.written = session.written
           /\ old.pc \in {"connect", "lock_tx", "lock_rx"}
                => /\ new.m = old.m
                   /\ new.pc \in {"connect", "lock_tx", "lock_rx", "write"}
           /\ (new.pc = "done" /\ old.pc # "done") => old.pc = "write"
      ]_vars

\* send(m2) returned Ok from a repeated attempt, on a connection made after
\* an attempt failed
C33_Witness ==
    /\ session.task["send"].pc = "done"
    /\ session.task["send"].retried
    /\ session.task["send"].m = "m2"
    /\ session.written = [by |-> "send", m |-> "m2", conn |-> session.tx.conn]
    /\ session.tx.conn >= 1

(* C40: the three session locks never deadlock.  With one task in next()   *)
(* and one in send(), no task waits for a guard it holds itself, and no    *)
(* two tasks wait for guards the other holds, also when send() runs        *)
(* reconnect (tx, then rx) while next() holds rx in the select!; and when  *)
(* connection attempts come to succeed, send() is again and again outside  *)
(* a call or back from one, and next() again and again back at the top of  *)
(* its loop (or the task has panicked on a fatal error).                   *)
C40_NoLockCycle ==
    /\ [](LET Waits(t) ==
                  CASE session.task[t].pc \in {"write", "lock_tx"} -> "tx"
                    [] session.task[t].pc = "lock_rx" -> "rx"
                    [] OTHER -> "none"
              Holder(lock) ==
                  CASE lock = "tx" -> session.tx.holder
                    [] lock = "rx" -> session.rx.holder
                    [] OTHER -> "none"
          IN  \A t \in SessionTasks :
                  LET h == Holder(Waits(t))
                  IN  h # "none"
                      => /\ h # t
                         /\ Holder(Waits(h)) \notin {t, h})
    /\ \A t \in SessionTasks :
          []<>(session.task[t].pc \in {"idle", "done", "top", "panicked"})

\* send() holds tx inside reconnect and waits for rx, which next() holds in
\* the select!
C40_Witness ==
    /\ session.task["send"].pc = "lock_rx"
    /\ session.tx.holder = "send"
    /\ session.rx.holder = "next"
    /\ session.task["next"].pc = "select"
====
